---------------------------- MODULE Spec2Model ----------------------------
(***************************************************************************)
(* A model of the ai-test-automation pipeline: main (src/main-py.py), the  *)
(* helpers of src/src/utils-py.py, TestCaseGenerator                       *)
(* (src/src/test-case-generator-py.py) and TestScriptGenerator             *)
(* (src/src/test-script-generator-py.py).                                  *)
(*                                                                         *)
(* Python strings are TLA+ strings; TLC evaluates Len, SubSeq, Head, Tail  *)
(* and \o on them, so every str method below is computed character by     *)
(* character as CPython computes it.                                       *)
(***************************************************************************)
EXTENDS Integers, Sequences, FiniteSets, TLC

VARIABLES
    dirs,               \* file system: the directories that exist
    files,              \* file system: path -> content of the files that exist
    inbox,              \* the replies the operator will paste, in order
    pasted,             \* the replies get_user_input has returned, in order
    console,            \* what the program has reported so far
    loads,              \* one record per load_template call
    elements,           \* TestCaseGenerator.elements
    test_cases,         \* TestCaseGenerator.test_cases
    ai_response,        \* generate_test_cases: ai_response
    lines,              \* _process_ai_response: lines
    idx,                \* _process_ai_response: position of the for loop
    current_test_case,  \* _process_ai_response: current_test_case
    section,            \* _process_ai_response: section
    ret,                \* _process_ai_response: its return value
    save_ret,           \* save_test_cases: its return value
    tcg_pc,             \* where the TestCaseGenerator is
    tsg_test_cases,     \* TestScriptGenerator.test_cases
    test_scripts,       \* TestScriptGenerator.test_scripts
    row,                \* generate_scripts: position of the for loop
    tsg_ai_response,    \* generate_scripts: ai_response
    tsg_pc,             \* where the TestScriptGenerator is
    task,               \* args.task
    url,                \* args.url
    main_pc,            \* where main is
    error,              \* the exception that ended the run, or None
    written,            \* the stage files this run has written
    elements_summary,   \* generate_test_cases: elements_summary
    sessions,           \* the browser sessions that are open
    opened,             \* how many browser sessions setup_driver has created
    quits,              \* extract_elements: how often driver.quit() was called
    ee_raise,           \* extract_elements: the exception on its way out, or None
    ee_pc,              \* where extract_elements is
    typed,              \* the lines the operator has typed so far
    nread,              \* how many of them input() has returned
    eof,                \* the operator has closed the input
    gui_lines,          \* get_user_input: lines
    gui_ret,            \* get_user_input: its return value
    gui_pc              \* where get_user_input is

fsVars   == <<dirs, files>>
tcgVars  == <<elements, test_cases, ai_response, lines, idx, current_test_case, section, ret,
             save_ret, tcg_pc>>
tsgVars  == <<tsg_test_cases, test_scripts, row, tsg_ai_response, tsg_pc>>
mainVars == <<task, url, main_pc, error>>
eeVars   == <<sessions, opened, quits, ee_raise, ee_pc>>
guiVars  == <<typed, nread, eof, gui_lines, gui_ret, gui_pc>>
vars     == <<dirs, files, inbox, pasted, console, loads, elements, test_cases,
              ai_response, lines, idx,
              current_test_case, section, ret, save_ret, tcg_pc, tsg_test_cases,
              test_scripts, row, tsg_ai_response, tsg_pc, task, url, main_pc, error,
              written, elements_summary, sessions, opened, quits, ee_raise, ee_pc,
              typed, nread, eof,
              gui_lines, gui_ret, gui_pc>>

None == "None"

(***************************************************************************)
(* str                                                                     *)
(***************************************************************************)

\* The characters str.strip() removes (those that occur in the replies).
WhiteSpace == {" ", "\t", "\n", "\r"}

Digits == {"0", "1", "2", "3", "4", "5", "6", "7", "8", "9"}

UpperCase == "ABCDEFGHIJKLMNOPQRSTUVWXYZ"

LowerCase == "abcdefghijklmnopqrstuvwxyz"

Char(s, i) == SubSeq(s, i, i)

\* str.isdigit() of one character
IsDigit(c) == c \in Digits

RECURSIVE LStrip(_)
LStrip(s) ==
    IF Len(s) > 0 /\ Head(s) \in WhiteSpace THEN LStrip(Tail(s)) ELSE s

RECURSIVE RStrip(_)
RStrip(s) ==
    IF Len(s) > 0 /\ Char(s, Len(s)) \in WhiteSpace
    THEN RStrip(SubSeq(s, 1, Len(s) - 1))
    ELSE s

\* s.strip()
Strip(s) == RStrip(LStrip(s))

\* s.startswith(p)
StartsWith(s, p) == Len(s) >= Len(p) /\ SubSeq(s, 1, Len(p)) = p

\* s.find(p) + 1: the position of the first occurrence of p in s, 0 if none
Find(s, p) ==
    LET hits == {i \in 1..(Len(s) - Len(p) + 1) : SubSeq(s, i, i + Len(p) - 1) = p}
    IN  IF hits = {} THEN 0 ELSE CHOOSE i \in hits : \A j \in hits : i <= j

\* p in s
Contains(s, p) == Find(s, p) > 0

\* s.split(sep)
RECURSIVE Split(_, _)
Split(s, sep) ==
    LET k == Find(s, sep)
    IN  IF k = 0
        THEN <<s>>
        ELSE <<SubSeq(s, 1, k - 1)>> \o Split(SubSeq(s, k + Len(sep), Len(s)), sep)

\* s.split(sep, 1)
SplitOnce(s, sep) ==
    LET k == Find(s, sep)
    IN  IF k = 0
        THEN <<s>>
        ELSE <<SubSeq(s, 1, k - 1), SubSeq(s, k + Len(sep), Len(s))>>

\* sep.join(parts)
RECURSIVE Join(_, _)
Join(parts, sep) ==
    IF parts = <<>> THEN ""
    ELSE IF Len(parts) = 1 THEN parts[1]
    ELSE parts[1] \o sep \o Join(Tail(parts), sep)

\* The lower-case letter of each upper-case letter
ToLower ==
    [c \in {Char(UpperCase, i) : i \in 1..Len(UpperCase)} |->
        Char(LowerCase, CHOOSE i \in 1..Len(UpperCase) : Char(UpperCase, i) = c)]

LowerChar(c) == IF c \in DOMAIN ToLower THEN ToLower[c] ELSE c

\* s.lower()
RECURSIVE Lower(_)
Lower(s) == IF s = "" THEN "" ELSE LowerChar(Head(s)) \o Lower(Tail(s))

\* str(i) of a natural number
RECURSIVE Str(_)
Str(i) ==
    IF i < 10 THEN Char("0123456789", i + 1)
    ELSE Str(i \div 10) \o Char("0123456789", (i % 10) + 1)

(***************************************************************************)
(* os.path and the file system                                             *)
(***************************************************************************)

\* os.path.join(a, b) for a relative b
PathJoin(a, b) == a \o "/" \o b

\* os.path.dirname(path)
Dirname(path) ==
    LET slashes == {i \in 1..Len(path) : Char(path, i) = "/"}
    IN  IF slashes = {} THEN ""
        ELSE SubSeq(path, 1, (CHOOSE i \in slashes : \A j \in slashes : j <= i) - 1)

\* os.makedirs(path): the directory and every missing ancestor
RECURSIVE MakeDirs(_, _)
MakeDirs(d, path) ==
    IF path = "" THEN d ELSE MakeDirs(d \cup {path}, Dirname(path))

\* os.path.exists(path)
Exists(d, f, path) == path \in d \/ path \in DOMAIN f

\* open(path, 'w').write(content): FileNotFoundError when the directory is missing
OpenWrite(d, f, path, content) ==
    IF Dirname(path) \in d
    THEN [files |-> (path :> content) @@ f, raised |-> None]
    ELSE [files |-> f, raised |-> "FileNotFoundError"]

(***************************************************************************)
(* src/utils.py                                                            *)
(***************************************************************************)

\* The directory this run writes to (args.output) and the three stage files of main.
OutputDir == "output"

ElementsJsonPath == PathJoin(OutputDir, "elements.json")

TestCasesPath == PathJoin(OutputDir, "test_cases.xlsx")

TestScriptsPath == PathJoin(OutputDir, "test_scripts.xlsx")

\* templates_dir, relative to the project root dirname(dirname(__file__))
TemplatesDir == "templates"

TestCasePromptPath ==
    PathJoin(PathJoin(TemplatesDir, "ai_prompts"), "test_case_prompt_template.txt")

TestScriptPromptPath ==
    PathJoin(PathJoin(TemplatesDir, "ai_prompts"), "test_script_prompt_template.txt")

\* The built-in texts (their placeholders; the prose between them is cut).
DefaultTestCasePrompt ==
    "I need to generate test cases for \"{site_name}\" ({site_url}). {elements_summary}"

DefaultTestScriptPrompt ==
    "Please create a script for {test_id} {test_scenario} {steps} {expected_result}"

\* create_default_templates(): each file is written only if absent; an open()
\* that fails raises and leaves the later file unwritten.
CreateDefaultTemplates(d, f) ==
    LET w1 == IF Exists(d, f, TestCasePromptPath)
              THEN [files |-> f, raised |-> None]
              ELSE OpenWrite(d, f, TestCasePromptPath, DefaultTestCasePrompt)
    IN  IF w1.raised # None THEN w1
        ELSE IF Exists(d, w1.files, TestScriptPromptPath) THEN w1
        ELSE OpenWrite(d, w1.files, TestScriptPromptPath, DefaultTestScriptPrompt)

\* load_template(template_name): the text read, or the exception raised; the
\* files as create_default_templates left them; how often it was called.
LoadTemplate(d, f, template_name) ==
    LET template_path == PathJoin(TemplatesDir, template_name)
    IN  IF template_path \in DOMAIN f
        THEN [name |-> template_name, absent |-> FALSE, regenerated |-> 0,
              raised |-> None, text |-> f[template_path], files |-> f]
        ELSE LET c == CreateDefaultTemplates(d, f)
             IN  IF c.raised # None
                 THEN [name |-> template_name, absent |-> TRUE, regenerated |-> 1,
                       raised |-> c.raised, text |-> None, files |-> c.files]
                 ELSE IF template_path \in DOMAIN c.files
                 THEN [name |-> template_name, absent |-> TRUE, regenerated |-> 1,
                       raised |-> None, text |-> c.files[template_path],
                       files |-> c.files]
                 ELSE [name |-> template_name, absent |-> TRUE, regenerated |-> 1,
                       raised |-> "FileNotFoundError", text |-> None,
                       files |-> c.files]

\* What load_template leaves in the log of loads (the files are state already).
LoadRecord(l) ==
    [name |-> l.name, absent |-> l.absent, regenerated |-> l.regenerated,
     raised |-> l.raised, text |-> l.text]

\* setup_directories(output_dir)
SetupDirectories(d, f, output_dir) ==
    LET d1 == IF Exists(d, f, output_dir) THEN d ELSE MakeDirs(d, output_dir)
    IN  IF Exists(d1, f, TemplatesDir)
        THEN [dirs |-> d1, files |-> f, raised |-> None]
        ELSE LET d2 == MakeDirs(MakeDirs(MakeDirs(d1, TemplatesDir),
                                         PathJoin(TemplatesDir, "ai_prompts")),
                                PathJoin(TemplatesDir, "export_templates"))
                 c  == CreateDefaultTemplates(d2, f)
             IN  [dirs |-> d2, files |-> c.files, raised |-> c.raised]

\* How many lines the operator types at most during one get_user_input call.
MaxTyped == 4

\* The lines the operator types
InputLinePool == {"", "  ", "a", " b"}

\* IsSentinel as it would be were any blank line after the first line the end
IsSentinelAnyBlank(ls, line) == Strip(line) = "" /\ ls # <<>>

\* get_user_input, line 143: a blank line read right after a blank line
IsSentinel(ls, line) ==
    Strip(line) = "" /\ ls # <<>> /\ Strip(ls[Len(ls)]) = ""

\* The operator types one more line
OperatorTypes ==
    /\ gui_pc # None
    /\ ~eof
    /\ Len(typed) < MaxTyped
    /\ \E line \in InputLinePool : typed' = Append(typed, line)
    /\ UNCHANGED <<nread, eof, gui_lines, gui_ret, gui_pc>>
    /\ UNCHANGED <<fsVars, inbox, pasted, console, loads, tcgVars, tsgVars, mainVars, written,
                   elements_summary, eeVars>>

\* The operator closes the input
OperatorCloses ==
    /\ gui_pc # None
    /\ ~eof
    /\ eof' = TRUE
    /\ UNCHANGED <<typed, nread, gui_lines, gui_ret, gui_pc>>
    /\ UNCHANGED <<fsVars, inbox, pasted, console, loads, tcgVars, tsgVars, mainVars, written,
                   elements_summary, eeVars>>

\* get_user_input, lines 140-149: one turn of the loop. input() returns the next
\* typed line, raises EOFError at end of input, and blocks while there is neither.
ReadLine ==
    /\ gui_pc = "reading"
    /\ IF nread < Len(typed)
       THEN LET line == typed[nread + 1]
            IN  /\ nread' = nread + 1
                /\ IF IsSentinel(gui_lines, line)
                   THEN /\ gui_ret' = Join(gui_lines, "\n")
                        /\ gui_pc' = "returned"
                        /\ UNCHANGED gui_lines
                   ELSE /\ gui_lines' = Append(gui_lines, line)
                        /\ UNCHANGED <<gui_ret, gui_pc>>
       ELSE /\ eof
            /\ gui_ret' = Join(gui_lines, "\n")
            /\ gui_pc' = "returned"
            /\ UNCHANGED <<nread, gui_lines>>
    /\ UNCHANGED <<typed, eof>>
    /\ UNCHANGED <<fsVars, inbox, pasted, console, loads, tcgVars, tsgVars, mainVars, written,
                   elements_summary, eeVars>>

(***************************************************************************)
(* src/test_case_generator.py: TestCaseGenerator                           *)
(***************************************************************************)

\* current_test_case = None
NoTestCase == <<>>

\* The four keys of a test case (the code's own strings).
TestCase(test_id, test_scenario, steps, expected) ==
    ("Test Case ID" :> test_id) @@ ("Test Scenario" :> test_scenario)
        @@ ("Steps to Execute" :> steps) @@ ("Expected Result" :> expected)

\* line 240: the test-case header test, on a stripped line
IsTestCaseHeader(line) ==
    \/ StartsWith(line, "Test Case") /\ Contains(line, ":")
    \/ StartsWith(line, "TC-") /\ Contains(line, ":")

\* NewTestCase as it would be with line.split(':') in place of line.split(':', 1)
NewTestCaseSplitAll(line) ==
    LET parts         == Split(line, ":")
        test_id       == Strip(parts[1])
        test_scenario == IF Len(parts) > 1 THEN Strip(parts[2]) ELSE ""
    IN  TestCase(test_id, test_scenario, <<>>, "")

\* lines 246-254: the record a header line opens
NewTestCase(line) ==
    LET parts         == SplitOnce(line, ":")
        test_id       == Strip(parts[1])
        test_scenario == IF Len(parts) > 1 THEN Strip(parts[2]) ELSE ""
    IN  TestCase(test_id, test_scenario, <<>>, "")

\* SavePrevious as it would be had the header branch not saved the open record
SavePreviousDropped(cases, current) == cases

\* lines 242-243: the list after "save previous test case if it exists"
SavePrevious(cases, current) ==
    IF current # NoTestCase THEN Append(cases, current) ELSE cases

\* line 258
IsStepsHeader(line) ==
    StartsWith(Lower(line), "steps to execute") \/ Lower(line) = "steps"

\* line 260
IsExpectedHeader(line) ==
    StartsWith(Lower(line), "expected result") \/ Lower(line) = "expected"

\* line 267
IsNumberedStep(line) == IsDigit(Char(line, 1)) /\ Contains(line, ". ")

\* lines 268-269: step_text
StepText(line) ==
    LET step_number == Split(line, ". ")[1]
    IN  Strip(SubSeq(line, Len(step_number) + 3, Len(line)))

\* AddStep as it would be were every line of the steps section a step of its own
AddStepAlwaysAppends(tc, line) ==
    [tc EXCEPT !["Steps to Execute"] =
        Append(@, IF IsNumberedStep(line) THEN StepText(line) ELSE line)]

\* lines 265-281: a content line in the steps section
AddStep(tc, line) ==
    LET steps == tc["Steps to Execute"]
    IN  IF IsNumberedStep(line)
        THEN [tc EXCEPT !["Steps to Execute"] = Append(steps, StepText(line))]
        ELSE IF steps # <<>>
        THEN IF ~IsDigit(Char(line, 1)) \/ ~Contains(line, ". ")
             THEN [tc EXCEPT !["Steps to Execute"] =
                      [steps EXCEPT ![Len(steps)] = @ \o " " \o line]]
             ELSE [tc EXCEPT !["Steps to Execute"] = Append(steps, line)]
        ELSE [tc EXCEPT !["Steps to Execute"] = Append(steps, line)]

\* lines 282-286: a content line in the expected-result section
AddExpected(tc, line) ==
    IF tc["Expected Result"] # ""
    THEN [tc EXCEPT !["Expected Result"] = @ \o " " \o line]
    ELSE [tc EXCEPT !["Expected Result"] = line]

\* lines 319-322: the numbered text of a list of steps
RECURSIVE NumberedFrom(_, _)
NumberedFrom(steps, i) ==
    IF steps = <<>> THEN ""
    ELSE Str(i) \o ". " \o Head(steps) \o "\n" \o NumberedFrom(Tail(steps), i + 1)

\* StepsText as it would be with enumerate(steps) in place of enumerate(steps, 1)
StepsTextFromZero(steps) == Strip(NumberedFrom(steps, 0))

StepsText(steps) == Strip(NumberedFrom(steps, 1))

\* lines 314-324: the row written for a test case
ProcessedCase(tc) == [tc EXCEPT !["Steps to Execute"] = StepsText(@)]

ProcessedTestCases(cases) == [i \in 1..Len(cases) |-> ProcessedCase(cases[i])]

\* dict.get(key, default)
Get(d, key, default) == IF key \in DOMAIN d THEN d[key] ELSE default

\* The concatenation of a sequence of sequences
RECURSIVE Flatten(_)
Flatten(seqs) == IF seqs = <<>> THEN <<>> ELSE Head(seqs) \o Flatten(Tail(seqs))

\* list[:n]
Take(seq, n) == SubSeq(seq, 1, IF Len(seq) < n THEN Len(seq) ELSE n)

\* lines 121-128: the BUTTONS block
FormatButtons(buttons) ==
    IF buttons = <<>> THEN <<>>
    ELSE <<"BUTTONS:">> \o
         [i \in 1..Len(buttons) |->
             "  " \o Str(i) \o ". " \o Get(buttons[i], "text", "[No text]")
               \o " (" \o Get(buttons[i], "element_type", "button")
               \o ", id=" \o Get(buttons[i], "id", "[No ID]")
               \o ", class=" \o Get(buttons[i], "class", "[No class]") \o ")"]

\* lines 131-137: the LINKS block
FormatLinks(links) ==
    IF links = <<>> THEN <<>>
    ELSE <<"\nLINKS:">> \o
         [i \in 1..Len(links) |->
             "  " \o Str(i) \o ". " \o Get(links[i], "text", "[No text]")
               \o " (href=" \o Get(links[i], "href", "[No href]")
               \o ", target=" \o Get(links[i], "target", "_self") \o ")"]

\* lines 160-164: options_text of a select
OptionsText(options) ==
    Join([i \in 1..Len(Take(options, 5)) |-> Get(options[i], "text", "Option")], ", ")
       \o (IF Len(options) > 5
           THEN ", ... (" \o Str(Len(options) - 5) \o " more)"
           ELSE "")

\* lines 143-165: the lines of one input field (none for an unknown kind)
FormatInput(i, f) ==
    LET input_type == Get(f, "element_type", "input")
        name       == Get(f, "name", "[No name]")
    IN  IF input_type = "input"
        THEN <<"  " \o Str(i) \o ". " \o Get(f, "type", "text") \o " input (name="
                 \o name \o ", placeholder="
                 \o Get(f, "placeholder", "[No placeholder]") \o ", "
                 \o (IF Get(f, "required", FALSE) THEN "required" ELSE "optional")
                 \o ")">>
        ELSE IF input_type = "textarea"
        THEN <<"  " \o Str(i) \o ". textarea (name=" \o name \o ", placeholder="
                 \o Get(f, "placeholder", "[No placeholder]") \o ", rows="
                 \o Get(f, "rows", "default") \o ")">>
        ELSE IF input_type = "select"
        THEN <<"  " \o Str(i) \o ". select dropdown (name=" \o name \o ", options: "
                 \o OptionsText(Get(f, "options", <<>>)) \o ")">>
        ELSE <<>>

\* lines 140-165: the INPUT FIELDS block
FormatInputs(inputs) ==
    IF inputs = <<>> THEN <<>>
    ELSE <<"\nINPUT FIELDS:">>
           \o Flatten([i \in 1..Len(inputs) |-> FormatInput(i, inputs[i])])

\* lines 170-183: one form and its inputs
FormatForm(i, form) ==
    LET inputs == Get(form, "inputs", <<>>)
    IN  <<"  " \o Str(i) \o ". form (id=" \o Get(form, "id", "[No ID]")
            \o ", method=" \o Get(form, "method", "get")
            \o ", action=" \o Get(form, "action", "[No action]")
            \o ", " \o Str(Len(inputs)) \o " inputs)">>
        \o [j \in 1..Len(inputs) |->
              LET input_type == Get(inputs[j], "element_type", "input")
              IN  "    " \o Str(j) \o ". "
                    \o (IF input_type = "input" THEN Get(inputs[j], "type", "text")
                        ELSE input_type)
                    \o " (name=" \o Get(inputs[j], "name", "[No name]") \o ")"]

\* lines 168-183: the FORMS block
FormatForms(forms) ==
    IF forms = <<>> THEN <<>>
    ELSE <<"\nFORMS:">> \o Flatten([i \in 1..Len(forms) |-> FormatForm(i, forms[i])])

\* lines 189-194: the PAGE HEADERS block
FormatHeaders(headers) ==
    IF headers = <<>> THEN <<>>
    ELSE <<"\nPAGE HEADERS:">> \o
         [i \in 1..Len(headers) |->
             "  - " \o Get(headers[i], "level", "h") \o ": "
                \o Get(headers[i], "text", "[No text]")]

\* line 210: the line that stands for the navigation items not shown
MoreItems(items_count) == "    ... (" \o Str(items_count - 5) \o " more items)"

\* lines 198-210: one navigation menu
FormatNavigation(nav) ==
    LET items == Get(nav, "items", <<>>)
    IN  <<"  - Navigation (id=" \o Get(nav, "id", "[No ID]") \o ", "
            \o Str(Len(items)) \o " items)">>
        \o [i \in 1..Len(Take(items, 5)) |->
              "    " \o Str(i) \o ". " \o Get(items[i], "text", "[No text]")
                \o " (href=" \o Get(items[i], "href", "[No href]") \o ")"]
        \o (IF Len(items) > 5 THEN <<MoreItems(Len(items))>> ELSE <<>>)

\* lines 196-210: the NAVIGATION MENUS block
FormatNavigations(navigation) ==
    IF navigation = <<>> THEN <<>>
    ELSE <<"\nNAVIGATION MENUS:">>
           \o Flatten([i \in 1..Len(navigation) |-> FormatNavigation(navigation[i])])

\* lines 107-212: _format_elements_for_prompt on self.elements = e
FormatElementsForPrompt(e) ==
    LET metadata       == Get(e, "metadata", <<>>)
        page_structure == Get(metadata, "page_structure", <<>>)
    IN  Join((IF "description" \in DOMAIN metadata
              THEN <<"SITE DESCRIPTION: " \o metadata["description"] \o "\n">>
              ELSE <<>>)
             \o FormatButtons(Get(e, "buttons", <<>>))
             \o FormatLinks(Get(e, "links", <<>>))
             \o FormatInputs(Get(e, "inputs", <<>>))
             \o FormatForms(Get(e, "forms", <<>>))
             \o FormatHeaders(Get(page_structure, "headers", <<>>))
             \o FormatNavigations(Get(page_structure, "navigation", <<>>)),
             "\n")

\* _format_elements_for_prompt, called on its own
FormatElements ==
    /\ tcg_pc = "constructed"
    /\ elements_summary' = FormatElementsForPrompt(elements)
    /\ tcg_pc' = "formatted"
    /\ UNCHANGED <<fsVars, inbox, pasted, console, loads, elements, test_cases,
                   ai_response, lines, idx, current_test_case, section, ret, save_ret,
                   tsgVars, mainVars, written, eeVars, guiVars>>

\* An exception leaves the method that raised it; under main it ends the run.
Raise(e) ==
    /\ error' = e
    /\ main_pc' = IF main_pc = None THEN None ELSE "failed"

\* The reply get_user_input returns: the next paste, or "" at end of input.
NextReply == IF inbox = <<>> THEN "" ELSE Head(inbox)

\* lines 45-97 and 224-232: generate_test_cases up to the for loop of
\* _process_ai_response
GenerateTestCasesCall ==
    /\ IF elements = <<>>
       THEN /\ Raise("ValueError")
            /\ tcg_pc' = "raised"
            /\ UNCHANGED <<fsVars, inbox, pasted, console, loads, elements, test_cases,
                           ai_response, lines, idx, current_test_case, section, ret,
                           save_ret, tsgVars, task, url, written, elements_summary,
                           eeVars, guiVars>>
       ELSE LET l == LoadTemplate(dirs, files,
                                  "templates/ai_prompts/test_case_prompt_template.txt")
                reply == NextReply
            IN  /\ files' = l.files
                /\ loads' = Append(loads, LoadRecord(l))
                /\ IF l.raised # None
                   THEN /\ Raise("FileNotFoundError")
                        /\ tcg_pc' = "raised"
                        /\ UNCHANGED <<inbox, pasted, console, ai_response, lines, idx,
                                       current_test_case, section, ret,
                                       elements_summary>>
                   ELSE /\ inbox' = IF inbox = <<>> THEN <<>> ELSE Tail(inbox)
                        /\ pasted' = Append(pasted, reply)
                        /\ ai_response' = reply
                        /\ elements_summary' = FormatElementsForPrompt(elements)
                        /\ UNCHANGED <<error, main_pc>>
                        /\ IF Strip(reply) = ""
                           THEN /\ console' = console \o
                                      <<"PROMPT", "Warning: Empty AI response received.">>
                                /\ ret' = <<>>
                                /\ tcg_pc' = "processed"
                                /\ UNCHANGED <<lines, idx, current_test_case, section>>
                           ELSE /\ console' = Append(console, "PROMPT")
                                /\ lines' = Split(Strip(reply), "\n")
                                /\ idx' = 1
                                /\ current_test_case' = NoTestCase
                                /\ section' = None
                                /\ tcg_pc' = "loop"
                                /\ UNCHANGED ret
                /\ UNCHANGED <<dirs, elements, test_cases, save_ret, tsgVars, task, url,
                               written, eeVars, guiVars>>

\* generate_test_cases called on a generator just constructed
GenerateTestCases ==
    /\ tcg_pc = "constructed"
    /\ GenerateTestCasesCall

\* generate_test_cases called once more on the same generator, while the
\* operator has a reply left to paste
GenerateTestCasesAgain ==
    /\ tcg_pc \in {"generated", "saved"}
    /\ inbox # <<>>
    /\ GenerateTestCasesCall

\* LoopBody as it would be were the section kept across a test-case header
LoopBodyKeepingSection(st, raw) ==
    LET line == Strip(raw)
        cur  == st.current_test_case
    IN  IF line = "" THEN st
        ELSE IF IsTestCaseHeader(line)
        THEN [test_cases        |-> SavePrevious(st.test_cases, cur),
              current_test_case |-> NewTestCase(line),
              section           |-> st.section]
        ELSE IF IsStepsHeader(line)
        THEN [st EXCEPT !.section = "Steps to Execute"]
        ELSE IF IsExpectedHeader(line)
        THEN [st EXCEPT !.section = "Expected Result"]
        ELSE IF st.section # None /\ cur # NoTestCase
        THEN IF st.section = "Steps to Execute"
             THEN [st EXCEPT !.current_test_case = AddStep(cur, line)]
             ELSE [st EXCEPT !.current_test_case = AddExpected(cur, line)]
        ELSE st

\* lines 235-286: the body of the for loop on one raw line; st holds
\* test_cases, current_test_case and section
LoopBody(st, raw) ==
    LET line == Strip(raw)
        cur  == st.current_test_case
    IN  IF line = "" THEN st
        ELSE IF IsTestCaseHeader(line)
        THEN [test_cases        |-> SavePrevious(st.test_cases, cur),
              current_test_case |-> NewTestCase(line),
              section           |-> None]
        ELSE IF IsStepsHeader(line)
        THEN [st EXCEPT !.section = "Steps to Execute"]
        ELSE IF IsExpectedHeader(line)
        THEN [st EXCEPT !.section = "Expected Result"]
        ELSE IF st.section # None /\ cur # NoTestCase
        THEN IF st.section = "Steps to Execute"
             THEN [st EXCEPT !.current_test_case = AddStep(cur, line)]
             ELSE [st EXCEPT !.current_test_case = AddExpected(cur, line)]
        ELSE st

\* lines 234-286: one iteration of the for loop
ProcessLine ==
    /\ tcg_pc = "loop"
    /\ idx <= Len(lines)
    /\ \E st \in {LoopBody([test_cases        |-> test_cases,
                              current_test_case |-> current_test_case,
                              section           |-> section], lines[idx])} :
           /\ test_cases' = st.test_cases
           /\ current_test_case' = st.current_test_case
           /\ section' = st.section
    /\ idx' = idx + 1
    /\ UNCHANGED <<written, elements_summary, eeVars, guiVars>>
    /\ UNCHANGED <<fsVars, inbox, pasted, console, loads, elements, ai_response, lines, ret,
                   save_ret, tcg_pc, tsgVars, mainVars>>

\* AddLast as it would be were the list started afresh by the last test case
AddLastReplacing(cases, current) ==
    IF current # NoTestCase THEN <<current>> ELSE cases

\* AddLast as it would be had the last test case been forgotten
AddLastForgotten(cases, current) == cases

\* lines 288-290: "don't forget to add the last test case"
AddLast(cases, current) ==
    IF current # NoTestCase THEN Append(cases, current) ELSE cases

\* lines 288-292: the end of the loop and the return
ProcessReturn ==
    /\ tcg_pc = "loop"
    /\ idx > Len(lines)
    /\ test_cases' = AddLast(test_cases, current_test_case)
    /\ ret' = test_cases'
    /\ tcg_pc' = "processed"
    /\ UNCHANGED <<written, elements_summary, eeVars, guiVars>>
    /\ UNCHANGED <<fsVars, inbox, pasted, console, loads, elements, ai_response, lines, idx,
                   current_test_case, section, save_ret, tsgVars, mainVars>>

\* lines 234-286: the for loop over all the lines
RECURSIVE LoopOver(_, _)
LoopOver(st, ls) ==
    IF ls = <<>> THEN st ELSE LoopOver(LoopBody(st, Head(ls)), Tail(ls))

\* lines 214-292: self.test_cases after _process_ai_response(response), called
\* with self.test_cases = cases
ProcessAiResponse(cases, response) ==
    IF Strip(response) = "" THEN cases
    ELSE LET st == LoopOver([test_cases        |-> cases,
                             current_test_case |-> NoTestCase,
                             section           |-> None],
                            Split(Strip(response), "\n"))
         IN  AddLast(st.test_cases, st.current_test_case)

\* GenerateReport as it would be with its test inverted
GenerateReportInverted(cases) ==
    IF cases # <<>>
    THEN "Warning: No test cases were extracted from the AI response."
    ELSE "Successfully generated " \o Str(Len(cases)) \o " test cases."

\* lines 99-105: the report of generate_test_cases
GenerateReport(cases) ==
    IF cases = <<>>
    THEN "Warning: No test cases were extracted from the AI response."
    ELSE "Successfully generated " \o Str(Len(cases)) \o " test cases."

GenerateReturn ==
    /\ tcg_pc = "processed"
    /\ console' = Append(console, GenerateReport(test_cases))
    /\ tcg_pc' = "generated"
    /\ UNCHANGED <<written, elements_summary, eeVars, guiVars>>
    /\ UNCHANGED <<fsVars, inbox, pasted, loads, elements, test_cases, ai_response, lines,
                   idx, current_test_case, section, ret, save_ret, tsgVars, mainVars>>

\* SaveFailure as it would be without the except clause
SaveFailureUncaught(e) == [ret |-> FALSE, report |-> None, raised |-> e]

\* lines 332-334: what the except clause makes of an exception raised in the try
\* block
SaveFailure(e) ==
    [ret |-> FALSE, report |-> "Error saving test cases to Excel", raised |-> None]

\* SaveConversion as it would be were the steps numbered in the records
\* themselves and not in copies
SaveConversionInPlace(cases) ==
    LET numbered == [i \in 1..Len(cases) |->
                       [cases[i] EXCEPT !["Steps to Execute"] =
                           [k \in 1..Len(@) |-> Str(k) \o ". " \o @[k]]]]
    IN  [test_cases |-> numbered, processed_test_cases |-> ProcessedTestCases(cases)]

\* lines 313-324: each record is copied (test_case.copy()) and the numbered
\* text is bound to the copy's key: self.test_cases after the loop, and the
\* rows built
SaveConversion(cases) ==
    [test_cases |-> cases, processed_test_cases |-> ProcessedTestCases(cases)]

\* lines 294-334: save_test_cases(output_path); the spreadsheet write either
\* succeeds or raises inside the try block
SaveTestCasesCall ==
    /\ IF test_cases = <<>>
       THEN /\ console' = Append(console, "Error: No test cases to save.")
            /\ save_ret' = FALSE
            /\ tcg_pc' = "saved"
            /\ UNCHANGED <<fsVars, written, error, main_pc, test_cases>>
       ELSE \E write_ok \in BOOLEAN :
            \E conv \in {SaveConversion(test_cases)} :
              /\ dirs' = MakeDirs(dirs, Dirname(TestCasesPath))
              /\ test_cases' = conv.test_cases
              /\ IF write_ok
                 THEN /\ files' = (TestCasesPath :> conv.processed_test_cases)
                                      @@ files
                      /\ written' = written \cup {TestCasesPath}
                      /\ console' = Append(console, "Test cases successfully saved")
                      /\ save_ret' = TRUE
                      /\ tcg_pc' = "saved"
                      /\ UNCHANGED <<error, main_pc>>
                 ELSE LET f == SaveFailure("OSError")
                      IN  /\ UNCHANGED <<files, written>>
                          /\ IF f.raised # None
                             THEN /\ Raise(f.raised)
                                  /\ tcg_pc' = "raised"
                                  /\ UNCHANGED <<console, save_ret>>
                             ELSE /\ console' = Append(console, f.report)
                                  /\ save_ret' = f.ret
                                  /\ tcg_pc' = "saved"
                                  /\ UNCHANGED <<error, main_pc>>
    /\ UNCHANGED <<elements_summary, eeVars, guiVars>>
    /\ UNCHANGED <<inbox, pasted, loads, elements, ai_response, lines, idx,
                   current_test_case, section, ret, tsgVars, task, url>>

\* save_test_cases called after generate_test_cases
SaveTestCases ==
    /\ tcg_pc = "generated"
    /\ SaveTestCasesCall

\* The reports of save_test_cases
SaveReports ==
    {"Error: No test cases to save.", "Test cases successfully saved",
     "Error saving test cases to Excel"}

\* How many calls of save_test_cases have returned
SaveCalls == Cardinality({i \in 1..Len(console) : console[i] \in SaveReports})

\* How often save_test_cases is called on one generator.
MaxSaves == 2

\* save_test_cases called once more on the same generator
SaveTestCasesAgain ==
    /\ tcg_pc = "saved"
    /\ SaveCalls < MaxSaves
    /\ SaveTestCasesCall

(***************************************************************************)
(* src/test_script_generator.py: TestScriptGenerator                       *)
(***************************************************************************)

\* The three keys of a test script (the code's own strings).
TestScript(test_id, test_scenario, script_code) ==
    ("Test Case ID" :> test_id) @@ ("Test Scenario" :> test_scenario)
        @@ ("Python Selenium Code" :> script_code)

\* The code fence, three grave accents. A TLA+ string cannot hold a grave
\* accent, so the tilde, which no reply uses otherwise, stands for it.
Fence == "~~~"

\* line 89: the line opens a code block
IsFenceOpen(line) ==
    StartsWith(Strip(line), Fence \o "python") \/ Strip(line) = Fence \o "python"

\* line 92, without its "and in_code_block"
IsFenceClose(line) == Strip(line) = Fence

\* lines 88-97: the lines collected inside code blocks
RECURSIVE FencedLines(_, _)
FencedLines(ls, in_code_block) ==
    IF ls = <<>> THEN <<>>
    ELSE IF IsFenceOpen(Head(ls)) THEN FencedLines(Tail(ls), TRUE)
    ELSE IF IsFenceClose(Head(ls)) /\ in_code_block THEN FencedLines(Tail(ls), FALSE)
    ELSE IF in_code_block THEN <<Head(ls)>> \o FencedLines(Tail(ls), TRUE)
    ELSE FencedLines(Tail(ls), FALSE)

\* line 104
IsImportLine(line) ==
    StartsWith(Strip(line), "import ") \/ StartsWith(Strip(line), "from ")

\* ImportLines as it would be had the import line been tested after the append
RECURSIVE ImportLinesAfterFirst(_, _)
ImportLinesAfterFirst(ls, in_code) ==
    IF ls = <<>> THEN <<>>
    ELSE IF in_code
    THEN <<Head(ls)>> \o ImportLinesAfterFirst(Tail(ls), TRUE)
    ELSE ImportLinesAfterFirst(Tail(ls), IsImportLine(Head(ls)))

\* lines 102-108: the lines from the first import statement on
RECURSIVE ImportLines(_, _)
ImportLines(ls, in_code) ==
    IF ls = <<>> THEN <<>>
    ELSE IF in_code \/ IsImportLine(Head(ls))
    THEN <<Head(ls)>> \o ImportLines(Tail(ls), TRUE)
    ELSE ImportLines(Tail(ls), FALSE)

\* ExtractCodeFromResponse as it would be without lines 111-112
ExtractCodeNoFallback(response) ==
    LET ls       == Split(Strip(response), "\n")
        fenced   == FencedLines(ls, FALSE)
        imported == IF fenced = <<>> THEN ImportLines(ls, FALSE) ELSE fenced
    IN  Join(imported, "\n")

\* lines 84-114: _extract_code_from_response(response)
ExtractCodeFromResponse(response) ==
    LET ls       == Split(Strip(response), "\n")
        fenced   == FencedLines(ls, FALSE)
        imported == IF fenced = <<>> THEN ImportLines(ls, FALSE) ELSE fenced
        code_lines == IF imported = <<>> THEN ls ELSE imported
    IN  Join(code_lines, "\n")

\* A cell pandas reads back: an empty cell comes back as NaN
NaN == "nan"

ReadCell(v) == IF v = "" THEN NaN ELSE v

\* line 26: pd.read_excel(path).to_dict(records) of the rows written
ReadExcel(rows) ==
    [i \in 1..Len(rows) |-> [k \in DOMAIN rows[i] |-> ReadCell(rows[i][k])]]

\* lines 36-41: generate_scripts up to its for loop
GenerateScripts ==
    /\ tsg_pc = "constructed"
    /\ LET l == LoadTemplate(dirs, files, "ai_prompts/test_script_prompt_template.txt")
       IN  /\ files' = l.files
           /\ loads' = Append(loads, LoadRecord(l))
           /\ IF l.raised # None
              THEN /\ Raise(l.raised)
                   /\ tsg_pc' = "raised"
                   /\ UNCHANGED <<console, row>>
              ELSE /\ console' = Append(console, "STEP 2: GENERATING SELENIUM SCRIPTS")
                   /\ row' = 1
                   /\ tsg_pc' = "loop"
                   /\ UNCHANGED <<error, main_pc>>
    /\ UNCHANGED <<written, elements_summary, eeVars, guiVars>>
    /\ UNCHANGED <<dirs, inbox, pasted, tcgVars, tsg_test_cases, test_scripts, tsg_ai_response,
                   task, url>>

\* ScriptFor as it would be were the reply stored as it was pasted
ScriptForRawReply(test_case, reply) ==
    TestScript(test_case["Test Case ID"], test_case["Test Scenario"], reply)

\* lines 44-45 and 66-73: the record stored for a row and the reply to its prompt
ScriptFor(test_case, reply) ==
    TestScript(test_case["Test Case ID"], test_case["Test Scenario"],
               ExtractCodeFromResponse(reply))

\* lines 43-75: one iteration of the for loop
GenerateScript ==
    /\ tsg_pc = "loop"
    /\ row <= Len(tsg_test_cases)
    /\ LET test_case == tsg_test_cases[row]
           reply     == NextReply
       IN  /\ inbox' = IF inbox = <<>> THEN <<>> ELSE Tail(inbox)
           /\ pasted' = Append(pasted, reply)
           /\ tsg_ai_response' = reply
           /\ test_scripts' = Append(test_scripts, ScriptFor(test_case, reply))
           /\ console' = console \o
                 <<"PROMPT " \o Str(row), "REPLY " \o Str(row),
                   "Script generated " \o Str(row)>>
    /\ row' = row + 1
    /\ UNCHANGED <<written, elements_summary, eeVars, guiVars>>
    /\ UNCHANGED <<fsVars, loads, tcgVars, tsg_test_cases, tsg_pc, mainVars>>

\* line 77: the end of generate_scripts
GenerateScriptsReturn ==
    /\ tsg_pc = "loop"
    /\ row > Len(tsg_test_cases)
    /\ console' = Append(console, "All " \o Str(Len(test_scripts))
                                     \o " scripts generated successfully.")
    /\ tsg_pc' = "generated"
    /\ UNCHANGED <<written, elements_summary, eeVars, guiVars>>
    /\ UNCHANGED <<fsVars, inbox, pasted, loads, tcgVars, tsg_test_cases, test_scripts, row,
                   tsg_ai_response, mainVars>>

\* lines 116-124: save_scripts(output_path); a write failure propagates
SaveScripts ==
    /\ tsg_pc = "generated"
    /\ \E write_ok \in BOOLEAN :
         IF write_ok /\ Dirname(TestScriptsPath) \in dirs
         THEN /\ files' = (TestScriptsPath :> test_scripts) @@ files
              /\ written' = written \cup {TestScriptsPath}
              /\ tsg_pc' = "saved"
              /\ UNCHANGED <<error, main_pc>>
         ELSE /\ Raise("OSError")
              /\ tsg_pc' = "raised"
              /\ UNCHANGED <<files, written>>
    /\ UNCHANGED <<elements_summary, eeVars, guiVars>>
    /\ UNCHANGED <<dirs, inbox, pasted, console, loads, tcgVars, tsg_test_cases, test_scripts,
                   row, tsg_ai_response, task, url>>

(***************************************************************************)
(* src/utils.py: validate_url, and main.py                                 *)
(***************************************************************************)

SchemeChars ==
    {Char("abcdefghijklmnopqrstuvwxyzABCDEFGHIJKLMNOPQRSTUVWXYZ0123456789+-.", i) :
        i \in 1..65}

\* urlparse(u).scheme: the text before the first ":" when it is a scheme name
UrlScheme(u) ==
    LET i == Find(u, ":")
    IN  IF i > 1 /\ ~IsDigit(Char(u, 1))
             /\ \A k \in 1..(i - 1) : Char(u, k) \in SchemeChars
        THEN Lower(SubSeq(u, 1, i - 1))
        ELSE ""

\* urlparse(u).netloc: what follows "//" up to the next "/", "?" or "#"
UrlNetloc(u) ==
    LET rest == IF UrlScheme(u) = "" THEN u ELSE SubSeq(u, Find(u, ":") + 1, Len(u))
        body == SubSeq(rest, 3, Len(rest))
        ends == {k \in 1..Len(body) : Char(body, k) \in {"/", "?", "#"}}
        stop == IF ends = {} THEN Len(body) + 1
                ELSE CHOOSE k \in ends : \A j \in ends : k <= j
    IN  IF StartsWith(rest, "//") THEN SubSeq(body, 1, stop - 1) ELSE ""

\* ValidateUrl as it would be with the scheme alone tested
ValidateUrlSchemeOnly(u) == UrlScheme(u) # ""

\* validate_url(url)
ValidateUrl(u) == UrlScheme(u) # "" /\ UrlNetloc(u) # ""

\* The record extract_elements returns for the page at u
ElementsOf(u) ==
    [buttons |-> <<>>, links |-> <<>>, inputs |-> <<>>, forms |-> <<>>,
     metadata |-> [title |-> "Shop", url |-> u]]

\* main, lines 44-52: parse_arguments and setup_directories
MainSetup ==
    /\ main_pc = "start"
    /\ LET r == SetupDirectories(dirs, files, OutputDir)
       IN  /\ dirs' = r.dirs
           /\ files' = r.files
           /\ IF r.raised # None
              THEN Raise(r.raised)
              ELSE main_pc' = "task1" /\ UNCHANGED error
    /\ UNCHANGED <<written, elements_summary, eeVars, guiVars>>
    /\ UNCHANGED <<inbox, pasted, console, loads, tcgVars, tsgVars, task, url>>

\* main, lines 55-63: task 1 up to the call of extract_elements
ExtractTask ==
    /\ main_pc = "task1"
    /\ IF task \in {"extract", "all"}
       THEN IF url = None \/ url = ""
            THEN Raise("ValueError") /\ UNCHANGED <<console, ee_pc>>
            ELSE /\ console' = Append(console, "Task 1: Extracting elements")
                 /\ IF ~ValidateUrl(url)
                    THEN Raise("ValueError") /\ UNCHANGED ee_pc
                    ELSE /\ ee_pc' = "called"
                         /\ main_pc' = "in_task1"
                         /\ UNCHANGED error
       ELSE main_pc' = "task2" /\ UNCHANGED <<console, error, ee_pc>>
    /\ UNCHANGED <<written, elements_summary, sessions, opened, quits, ee_raise, guiVars>>
    /\ UNCHANGED <<fsVars, inbox, pasted, loads, tcgVars, tsgVars, task, url>>

\* extract_elements, line 47: setup_driver() returns a new browser session, or
\* raises before there is one
SetupDriver ==
    /\ ee_pc = "called"
    /\ \E started \in BOOLEAN :
         IF started
         THEN /\ sessions' = sessions \cup {opened + 1}
              /\ opened' = opened + 1
              /\ ee_pc' = "try"
              /\ UNCHANGED <<error, main_pc>>
         ELSE /\ Raise("WebDriverException")
              /\ ee_pc' = "raised"
              /\ UNCHANGED <<sessions, opened>>
    /\ UNCHANGED <<written, elements_summary, quits, ee_raise, guiVars>>
    /\ UNCHANGED <<fsVars, inbox, pasted, console, loads, tcgVars, tsgVars, task, url>>

\* The steps of the try block, in order, with the exception each may raise
TrySteps ==
    <<[at |-> "try",       then |-> "navigated", raises |-> "WebDriverException"],
      [at |-> "navigated", then |-> "loaded",    raises |-> "TimeoutException"],
      [at |-> "loaded",    then |-> "parsed",    raises |-> "ParserError"],
      [at |-> "parsed",    then |-> "finally",   raises |-> "WebDriverException"]>>

\* extract_elements, lines 48-79: driver.get, the wait for the body element,
\* the parse, the extraction; a step that raises goes to the finally clause
TryStep ==
    /\ \E i \in 1..Len(TrySteps), ok \in BOOLEAN :
         /\ ee_pc = TrySteps[i].at
         /\ IF ok
            THEN ee_pc' = TrySteps[i].then /\ UNCHANGED ee_raise
            ELSE ee_pc' = "finally" /\ ee_raise' = TrySteps[i].raises
    /\ console' = IF ee_pc = "try" THEN Append(console, "Navigating to " \o url)
                  ELSE console
    /\ UNCHANGED <<written, elements_summary, sessions, opened, quits, guiVars>>
    /\ UNCHANGED <<fsVars, inbox, pasted, loads, tcgVars, tsgVars, mainVars>>

\* QuitDriver as it would be were driver.quit() called without a finally clause
QuitOnSuccessOnly(open, raising) == IF raising = None THEN {} ELSE open

\* line 82: the sessions left open by driver.quit()
QuitDriver(open, raising) == {}

\* extract_elements, lines 81-82: the finally clause, then the return or the
\* exception
Finally ==
    /\ ee_pc = "finally"
    /\ sessions' = QuitDriver(sessions, ee_raise)
    /\ quits' = quits + Cardinality(sessions \ sessions')
    /\ IF ee_raise # None
       THEN Raise(ee_raise) /\ ee_pc' = "raised"
       ELSE ee_pc' = "returned" /\ UNCHANGED <<error, main_pc>>
    /\ UNCHANGED <<written, elements_summary, opened, ee_raise, guiVars>>
    /\ UNCHANGED <<fsVars, inbox, pasted, console, loads, tcgVars, tsgVars, task, url>>

\* main, lines 65-66, and save_elements: the record is written, or open() raises
SaveElements ==
    /\ main_pc = "in_task1"
    /\ ee_pc = "returned"
    /\ \E write_ok \in BOOLEAN :
         IF write_ok /\ Dirname(ElementsJsonPath) \in dirs
         THEN /\ files' = (ElementsJsonPath :> ElementsOf(url)) @@ files
              /\ written' = written \cup {ElementsJsonPath}
              /\ console' = Append(console, "Elements saved")
              /\ main_pc' = "task2"
              /\ UNCHANGED error
         ELSE /\ Raise("OSError")
              /\ UNCHANGED <<files, written, console>>
    /\ UNCHANGED <<elements_summary, eeVars, guiVars>>
    /\ UNCHANGED <<dirs, inbox, pasted, loads, tcgVars, tsgVars, task, url>>

\* main, lines 68-73: task 2 up to the construction of the TestCaseGenerator
GenerateTestsTask ==
    /\ main_pc = "task2"
    /\ IF task \in {"generate_tests", "all"}
       THEN /\ console' = Append(console, "Task 2: Generating test cases using AI")
            /\ IF ~Exists(dirs, files, ElementsJsonPath)
               THEN /\ Raise("FileNotFoundError")
                    /\ UNCHANGED <<elements, test_cases, tcg_pc>>
               ELSE /\ elements' = files[ElementsJsonPath]
                    /\ test_cases' = <<>>
                    /\ tcg_pc' = "constructed"
                    /\ main_pc' = "in_task2"
                    /\ UNCHANGED error
       ELSE /\ main_pc' = "task3"
            /\ UNCHANGED <<console, elements, test_cases, tcg_pc, error>>
    /\ UNCHANGED <<written, elements_summary, eeVars, guiVars>>
    /\ UNCHANGED <<fsVars, inbox, pasted, loads, ai_response, lines, idx, current_test_case,
                   section, ret, save_ret, tsgVars, task, url>>

\* main, lines 75-76: save_test_cases has returned; its result is dropped
GenerateTestsDone ==
    /\ main_pc = "in_task2"
    /\ tcg_pc = "saved"
    /\ console' = Append(console, "Test cases saved to " \o TestCasesPath)
    /\ main_pc' = "task3"
    /\ UNCHANGED <<written, elements_summary, eeVars, guiVars>>
    /\ UNCHANGED <<fsVars, inbox, pasted, loads, tcgVars, tsgVars, task, url, error>>

\* main, lines 78-83: task 3 up to the construction of the TestScriptGenerator
GenerateScriptsTask ==
    /\ main_pc = "task3"
    /\ IF task \in {"generate_scripts", "all"}
       THEN /\ console' = Append(console, "Task 3: Generating Selenium scripts using AI")
            /\ IF ~Exists(dirs, files, TestCasesPath)
               THEN /\ Raise("FileNotFoundError")
                    /\ UNCHANGED <<tsg_test_cases, test_scripts, tsg_pc>>
               ELSE /\ tsg_test_cases' = ReadExcel(files[TestCasesPath])
                    /\ test_scripts' = <<>>
                    /\ tsg_pc' = "constructed"
                    /\ main_pc' = "in_task3"
                    /\ UNCHANGED error
       ELSE /\ main_pc' = "end"
            /\ UNCHANGED <<console, tsg_test_cases, test_scripts, tsg_pc, error>>
    /\ UNCHANGED <<written, elements_summary, eeVars, guiVars>>
    /\ UNCHANGED <<fsVars, inbox, pasted, loads, tcgVars, row, tsg_ai_response, task, url>>

\* main, lines 85-86: save_scripts has returned
GenerateScriptsDone ==
    /\ main_pc = "in_task3"
    /\ tsg_pc = "saved"
    /\ console' = Append(console, "Test scripts saved to " \o TestScriptsPath)
    /\ main_pc' = "end"
    /\ UNCHANGED <<written, elements_summary, eeVars, guiVars>>
    /\ UNCHANGED <<fsVars, inbox, pasted, loads, tcgVars, tsgVars, task, url, error>>

\* main, line 88
MainDone ==
    /\ main_pc = "end"
    /\ console' = Append(console, "All tasks completed successfully!")
    /\ main_pc' = "done"
    /\ UNCHANGED <<written, elements_summary, eeVars, guiVars>>
    /\ UNCHANGED <<fsVars, inbox, pasted, loads, tcgVars, tsgVars, task, url, error>>

(***************************************************************************)
(* Specifications                                                          *)
(***************************************************************************)

\* No extract_elements call has begun
BrowserIdle ==
    sessions = {} /\ opened = 0 /\ quits = 0 /\ ee_raise = None /\ ee_pc = None

\* No get_user_input call is being followed line by line
InputIdle ==
    /\ typed = <<>> /\ nread = 0 /\ eof = FALSE
    /\ gui_lines = <<>> /\ gui_ret = "" /\ gui_pc = None


\* The longest pasted reply, in lines, that is enumerated in full.
MaxLines == 4

\* Every sequence of 1..n lines of pool
LineSeqs(pool, n) == UNION {[1..k -> pool] : k \in 1..n}

\* get_user_input stops at the second of two blank lines, so the reply it
\* returns never holds two blank lines in a row.
Pasteable(ls) ==
    \A i \in 1..(Len(ls) - 1) : ~(Strip(ls[i]) = "" /\ Strip(ls[i + 1]) = "")

PastedReplies(pool, n) ==
    {Join(ls, "\n") : ls \in {l \in LineSeqs(pool, n) : Pasteable(l)}}

\* elements.json as stage 1 writes it
SomeElements ==
    [buttons |-> <<>>, links |-> <<>>, inputs |-> <<>>, forms |-> <<>>,
     metadata |-> [title |-> "Shop", url |-> "http://shop.example/"]]

\* The path generate_test_cases asks load_template for, under templates_dir
RequestedTestCasePromptPath ==
    PathJoin(TemplatesDir, "templates/ai_prompts/test_case_prompt_template.txt")

\* --- the test-case parser on one pasted reply -----------------------------

ParseLinePool ==
    {"Test Case 1: Login", "  TC-2 : Pay: by card ", "Steps to Execute",
     "1. Open page", "2. Enter credentials", "Expected Result",
     "User is logged in", ""}

ExampleReply ==
    "Test Case 1: Login\nSteps to Execute\n1. Open page\n2. Enter credentials\nExpected Result\nUser is logged in"

TwoCaseReply ==
    "intro\nTest Case 1: Login\nSteps to Execute:\n2. Enter credentials\n1. Open page\nthen wait\nExpected Result\nUser is\nlogged in\n\nTC-2: Pay: by card\nsteps\n7. Pay\nEXPECTED\nPaid\n"

\* Steps numbered in other ways than "N. "
OddlyNumberedReply ==
    "Test Case 1: Login\nSteps\n10. Open page\n1) Open the app. Then log in\n2nd try. Retry\nExpected\n3. Done"

\* Content lines before the first header and between a header and its first
\* section header, the record before ending inside its steps section
StrayLinesReply ==
    "Steps\nlost\nTest Case 1: Login\nSteps\n1. Open page\nTC-2: Pay\nstray note\nExpected\nPaid"

ParseReplies ==
    PastedReplies(ParseLinePool, MaxLines)
        \cup {ExampleReply, TwoCaseReply, OddlyNumberedReply, StrayLinesReply,
              "  ", " \t"}

InitParse ==
    /\ dirs = {"output", "templates", "templates/ai_prompts", "templates/templates",
               "templates/templates/ai_prompts"}
    /\ files = (RequestedTestCasePromptPath :> "custom {elements_summary}")
    /\ inbox \in {<<r>> : r \in ParseReplies}
    /\ pasted = <<>>
    /\ console = <<>>
    /\ loads = <<>>
    /\ elements = SomeElements
    /\ test_cases = <<>>
    /\ ai_response = ""
    /\ lines = <<>>
    /\ idx = 0
    /\ current_test_case = NoTestCase
    /\ section = None
    /\ ret = <<>>
    /\ save_ret = FALSE
    /\ tcg_pc = "constructed"
    /\ tsg_test_cases = <<>>
    /\ test_scripts = <<>>
    /\ row = 0
    /\ tsg_ai_response = ""
    /\ tsg_pc = None
    /\ task = None
    /\ url = None
    /\ main_pc = None
    /\ error = None
    /\ written = {}
    /\ elements_summary = ""
    /\ BrowserIdle
    /\ InputIdle

NextParse ==
    \/ GenerateTestCases
    \/ ProcessLine
    \/ ProcessReturn
    \/ GenerateReturn
    \/ SaveTestCases

SpecParse == InitParse /\ [][NextParse]_vars

\* --- the script-body extractor on one pasted reply ------------------------

\* The longest pasted script reply, in lines, that is enumerated in full.
MaxCodeLines == 4

CodeLinePool ==
    {"~~~python", "~~~", "import os", "  from a import b", "x = 1", "Sure:", ""}

CodeReplies ==
    PastedReplies(CodeLinePool, MaxCodeLines)
        \cup {"Sure:\n~~~python\nx = 1\nimport os\n~~~\nDone.",
              "  ~~~python3 \n\tx = 1\n ~~~ \n", " y ", "x\nimport "}

\* One row of test_cases.xlsx
OneRow == <<TestCase("Test Case 1", "Login", "1. Open page", "User is logged in")>>

InitExtract ==
    /\ dirs = {"output", "templates", "templates/ai_prompts"}
    /\ files = (TestScriptPromptPath :> DefaultTestScriptPrompt)
                   @@ (TestCasesPath :> OneRow)
    /\ inbox \in {<<r>> : r \in CodeReplies}
    /\ pasted = <<>>
    /\ console = <<>>
    /\ loads = <<>>
    /\ elements = <<>>
    /\ test_cases = <<>>
    /\ ai_response = ""
    /\ lines = <<>>
    /\ idx = 0
    /\ current_test_case = NoTestCase
    /\ section = None
    /\ ret = <<>>
    /\ save_ret = FALSE
    /\ tcg_pc = None
    /\ tsg_test_cases = ReadExcel(OneRow)
    /\ test_scripts = <<>>
    /\ row = 0
    /\ tsg_ai_response = ""
    /\ tsg_pc = "constructed"
    /\ task = None
    /\ url = None
    /\ main_pc = None
    /\ error = None
    /\ written = {}
    /\ elements_summary = ""
    /\ BrowserIdle
    /\ InputIdle

NextExtract ==
    \/ GenerateScripts
    \/ GenerateScript
    \/ GenerateScriptsReturn
    \/ SaveScripts

SpecExtract == InitExtract /\ [][NextExtract]_vars

\* --- generate_scripts over the rows of a spreadsheet ----------------------

\* The most rows test_cases.xlsx holds.
MaxRows == 3

\* A spreadsheet of k rows as save_test_cases writes it; every other scenario
\* is empty
SomeRows(k) ==
    [i \in 1..k |-> TestCase("TC-" \o Str(i),
                             IF i % 2 = 0 THEN "" ELSE "Scenario " \o Str(i),
                             "1. Open page", "Done")]

ScriptReplies == {"", "x = 1", Fence \o "python\nimport os\n" \o Fence \o "\nDone."}

InitScripts ==
    /\ dirs = {"output", "templates", "templates/ai_prompts"}
    /\ \E k \in 0..MaxRows :
          /\ files = (TestScriptPromptPath :> DefaultTestScriptPrompt)
                         @@ (TestCasesPath :> SomeRows(k))
          /\ tsg_test_cases = ReadExcel(SomeRows(k))
    /\ inbox \in UNION {[1..n -> ScriptReplies] : n \in 0..MaxRows}
    /\ pasted = <<>>
    /\ console = <<>>
    /\ loads = <<>>
    /\ elements = <<>>
    /\ test_cases = <<>>
    /\ ai_response = ""
    /\ lines = <<>>
    /\ idx = 0
    /\ current_test_case = NoTestCase
    /\ section = None
    /\ ret = <<>>
    /\ save_ret = FALSE
    /\ tcg_pc = None
    /\ test_scripts = <<>>
    /\ row = 0
    /\ tsg_ai_response = ""
    /\ tsg_pc = "constructed"
    /\ task = None
    /\ url = None
    /\ main_pc = None
    /\ error = None
    /\ written = {}
    /\ elements_summary = ""
    /\ BrowserIdle
    /\ InputIdle

SpecScripts == InitScripts /\ [][NextExtract]_vars

\* --- the digest of an elements record ------------------------------------

\* The most options of a select, and items of a navigation menu.
MaxItems == 7

Options(k) == [i \in 1..k |-> [text |-> "Opt" \o Str(i), value |-> Str(i)]]

NavItems(k) == [i \in 1..k |-> [text |-> "Item" \o Str(i), href |-> "/" \o Str(i)]]

\* An elements record with b buttons, then one select of k options, and one
\* navigation menu of n items
ElementsWith(b, k, n) ==
    [buttons  |-> [i \in 1..b |-> [text |-> "Buy", element_type |-> "button",
                                   id |-> "buy", class |-> "btn"]],
     links    |-> <<>>,
     inputs   |-> <<[element_type |-> "input", type |-> "email", name |-> "mail",
                     required |-> TRUE],
                    [element_type |-> "select", name |-> "size",
                     options |-> Options(k)]>>,
     forms    |-> <<>>,
     metadata |-> [title |-> "Shop", url |-> "http://shop.example/",
                   page_structure |->
                       [headers    |-> <<>>,
                        navigation |-> <<[id |-> "main", class |-> "nav",
                                          items |-> NavItems(n)]>>]]]

InitFormat ==
    /\ dirs = {}
    /\ files = <<>>
    /\ inbox = <<>>
    /\ pasted = <<>>
    /\ console = <<>>
    /\ loads = <<>>
    /\ \E b \in 0..1, k \in 0..MaxItems, n \in 0..MaxItems :
          elements = ElementsWith(b, k, n)
    /\ test_cases = <<>>
    /\ ai_response = ""
    /\ lines = <<>>
    /\ idx = 0
    /\ current_test_case = NoTestCase
    /\ section = None
    /\ ret = <<>>
    /\ save_ret = FALSE
    /\ tcg_pc = "constructed"
    /\ tsg_test_cases = <<>>
    /\ test_scripts = <<>>
    /\ row = 0
    /\ tsg_ai_response = ""
    /\ tsg_pc = None
    /\ task = None
    /\ url = None
    /\ main_pc = None
    /\ error = None
    /\ written = {}
    /\ elements_summary = ""
    /\ BrowserIdle
    /\ InputIdle

NextFormat == FormatElements

SpecFormat == InitFormat /\ [][NextFormat]_vars

\* --- get_user_input, line by line ----------------------------------------

InitInput ==
    /\ dirs = {}
    /\ files = <<>>
    /\ inbox = <<>>
    /\ pasted = <<>>
    /\ console = <<>>
    /\ loads = <<>>
    /\ elements = <<>>
    /\ test_cases = <<>>
    /\ ai_response = ""
    /\ lines = <<>>
    /\ idx = 0
    /\ current_test_case = NoTestCase
    /\ section = None
    /\ ret = <<>>
    /\ save_ret = FALSE
    /\ tcg_pc = None
    /\ tsg_test_cases = <<>>
    /\ test_scripts = <<>>
    /\ row = 0
    /\ tsg_ai_response = ""
    /\ tsg_pc = None
    /\ task = None
    /\ url = None
    /\ main_pc = None
    /\ error = None
    /\ written = {}
    /\ elements_summary = ""
    /\ BrowserIdle
    /\ typed = <<>> /\ nread = 0 /\ eof = FALSE
    /\ gui_lines = <<>> /\ gui_ret = "" /\ gui_pc = "reading"

NextInput ==
    \/ OperatorTypes
    \/ OperatorCloses
    \/ ReadLine

SpecInput == InitInput /\ [][NextInput]_vars

\* input() returns once a line or the end of input is there
SpecInputLive == SpecInput /\ WF_vars(ReadLine)

\* --- one generator used for several calls ----------------------------------

\* How many replies the operator has ready to paste, one per call.
MaxCalls == 2

\* A reply with no header line at all
NotesOnlyReply == "Sorry, no test cases.\nSteps\n1. None"

CallReplies == {"", " \t", ExampleReply, StrayLinesReply, NotesOnlyReply}

InitCalls ==
    /\ dirs = {"output", "templates", "templates/ai_prompts", "templates/templates",
               "templates/templates/ai_prompts"}
    /\ files = (RequestedTestCasePromptPath :> "custom {elements_summary}")
    /\ inbox \in UNION {[1..k -> CallReplies] : k \in 0..MaxCalls}
    /\ pasted = <<>>
    /\ console = <<>>
    /\ loads = <<>>
    /\ elements = SomeElements
    /\ test_cases = <<>>
    /\ ai_response = ""
    /\ lines = <<>>
    /\ idx = 0
    /\ current_test_case = NoTestCase
    /\ section = None
    /\ ret = <<>>
    /\ save_ret = FALSE
    /\ tcg_pc = "constructed"
    /\ tsg_test_cases = <<>>
    /\ test_scripts = <<>>
    /\ row = 0
    /\ tsg_ai_response = ""
    /\ tsg_pc = None
    /\ task = None
    /\ url = None
    /\ main_pc = None
    /\ error = None
    /\ written = {}
    /\ elements_summary = ""
    /\ BrowserIdle
    /\ InputIdle

NextCalls ==
    \/ GenerateTestCases
    \/ GenerateTestCasesAgain
    \/ ProcessLine
    \/ ProcessReturn
    \/ GenerateReturn
    \/ SaveTestCases
    \/ SaveTestCasesAgain

SpecCalls == InitCalls /\ [][NextCalls]_vars

\* --- one run of main ------------------------------------------------------

\* How many replies the operator has ready to paste.
MaxPastes == 2

MainReplies == {"", ExampleReply, Fence \o "python\nx = 1\n" \o Fence}

Urls ==
    {None, "", "shop.example", "http://shop.example/", "http:///cart",
     "//shop.example/cart", "http:shop.example", "http://:80/"}

\* What an earlier run may have left in the output directory
StaleElements == ElementsOf("http://old.example/")

StaleTestCases == <<TestCase("Old 1", "Stale", "1. Old step", "Old result")>>

\* The template directories as a checkout, a deletion or a user may have left them
TemplateDirConfigs ==
    {{},
     {"templates"},
     {"templates", "templates/ai_prompts", "templates/export_templates"},
     {"templates", "templates/ai_prompts", "templates/export_templates",
      "templates/templates", "templates/templates/ai_prompts"}}

\* One file, present or absent
Maybe(path, content) == {<<>>, path :> content}

InitMain ==
    /\ \E d \in TemplateDirConfigs, out \in {{}, {OutputDir}} :
          /\ dirs = d \cup out
          /\ \E tc \in IF "templates/ai_prompts" \in d
                       THEN Maybe(TestCasePromptPath, DefaultTestCasePrompt)
                       ELSE {<<>>},
                ts \in IF "templates/ai_prompts" \in d
                       THEN Maybe(TestScriptPromptPath, DefaultTestScriptPrompt)
                       ELSE {<<>>},
                rq \in IF "templates/templates/ai_prompts" \in d
                       THEN Maybe(RequestedTestCasePromptPath, DefaultTestCasePrompt)
                       ELSE {<<>>},
                el \in IF out = {} THEN {<<>>}
                       ELSE Maybe(ElementsJsonPath, StaleElements),
                xl \in IF out = {} THEN {<<>>}
                       ELSE Maybe(TestCasesPath, StaleTestCases) :
                files = tc @@ ts @@ rq @@ el @@ xl
    /\ inbox \in UNION {[1..k -> MainReplies] : k \in 0..MaxPastes}
    /\ pasted = <<>>
    /\ console = <<>>
    /\ loads = <<>>
    /\ elements = <<>>
    /\ test_cases = <<>>
    /\ ai_response = ""
    /\ lines = <<>>
    /\ idx = 0
    /\ current_test_case = NoTestCase
    /\ section = None
    /\ ret = <<>>
    /\ save_ret = FALSE
    /\ tcg_pc = None
    /\ tsg_test_cases = <<>>
    /\ test_scripts = <<>>
    /\ row = 0
    /\ tsg_ai_response = ""
    /\ tsg_pc = None
    /\ task \in {"extract", "generate_tests", "generate_scripts", "all"}
    /\ url \in Urls
    /\ main_pc = "start"
    /\ error = None
    /\ written = {}
    /\ elements_summary = ""
    /\ BrowserIdle
    /\ InputIdle

Next ==
    \/ MainSetup
    \/ ExtractTask
    \/ SetupDriver
    \/ TryStep
    \/ Finally
    \/ SaveElements
    \/ GenerateTestsTask
    \/ GenerateTestCases
    \/ ProcessLine
    \/ ProcessReturn
    \/ GenerateReturn
    \/ SaveTestCases
    \/ GenerateTestsDone
    \/ GenerateScriptsTask
    \/ GenerateScripts
    \/ GenerateScript
    \/ GenerateScriptsReturn
    \/ SaveScripts
    \/ GenerateScriptsDone
    \/ MainDone

Init == InitMain

Spec == Init /\ [][Next]_vars

(***************************************************************************)
(* Properties of the test-case parser (SpecParse)                          *)
(***************************************************************************)

\* _process_ai_response has returned
ParseFinished == tcg_pc \in {"processed", "generated", "saved"}

\* The lines of a reply as the parser reads them: stripped, in order
ReplyLines(r) ==
    LET ls == Split(Strip(r), "\n") IN [i \in 1..Len(ls) |-> Strip(ls[i])]

\* A header line as section 4.2 of the specification words it
HeaderForm(line) ==
    (StartsWith(line, "Test Case") \/ StartsWith(line, "TC-")) /\ Find(line, ":") > 0

HeaderPositions(ls) == {i \in 1..Len(ls) : HeaderForm(ls[i])}

RECURSIVE Ascending(_)
Ascending(S) ==
    IF S = {} THEN <<>>
    ELSE LET m == CHOOSE x \in S : \A y \in S : x <= y
         IN  <<m>> \o Ascending(S \ {m})

\* The last line of the unit that the header at position h opens
UnitEnd(ls, h) ==
    LET later == {j \in HeaderPositions(ls) : j > h}
    IN  IF later = {} THEN Len(ls)
        ELSE (CHOOSE x \in later : \A y \in later : x <= y) - 1

\* Every header is followed, inside its unit, by a steps section and then an
\* expected section
WellFormedReply(ls) ==
    \A h \in HeaderPositions(ls) :
        \E a, b \in (h + 1)..UnitEnd(ls, h) :
            a < b /\ IsStepsHeader(ls[a]) /\ IsExpectedHeader(ls[b])

TextBeforeColon(line) == Strip(SubSeq(line, 1, Find(line, ":") - 1))

TextAfterColon(line) == Strip(SubSeq(line, Find(line, ":") + 1, Len(line)))

\* C1: a reply of N well-formed units yields exactly N records, in header
\* order; record k has the ID and the scenario of header k, and it is the
\* record that the lines from header k up to the next header yield on their own.
C1_RecordsFollowHeaders ==
    (ParseFinished /\ Strip(ai_response) # "" /\ WellFormedReply(ReplyLines(ai_response)))
    => LET ls == ReplyLines(ai_response)
           hs == Ascending(HeaderPositions(ls))
       IN  /\ Len(test_cases) = Len(hs)
           /\ ret = test_cases
           /\ \A k \in 1..Len(hs) :
                /\ test_cases[k]["Test Case ID"] = TextBeforeColon(ls[hs[k]])
                /\ test_cases[k]["Test Scenario"] = TextAfterColon(ls[hs[k]])
                /\ <<test_cases[k]>> =
                      ProcessAiResponse(<<>>,
                          Join(SubSeq(ls, hs[k], UnitEnd(ls, hs[k])), "\n"))

C1_Witness ==
    /\ ParseFinished
    /\ WellFormedReply(ReplyLines(ai_response))
    /\ Len(test_cases) = 2
    /\ test_cases[1]["Steps to Execute"] # <<>>
    /\ test_cases[2]["Expected Result"] = "Paid"

\* C2: records and recognized headers correspond one to one: while the loop
\* runs, the records emitted plus the open one are as many as the header lines
\* read so far; when a non-blank reply is done, the list and the value returned
\* hold one record per header line, the last one included.
C2_OneRecordPerHeader ==
    /\ tcg_pc = "loop" =>
          Len(test_cases) + (IF current_test_case # NoTestCase THEN 1 ELSE 0)
             = Cardinality({i \in 1..(idx - 1) : IsTestCaseHeader(Strip(lines[i]))})
    /\ (ParseFinished /\ Strip(ai_response) # "") =>
          /\ Len(test_cases)
                = Cardinality({i \in 1..Len(lines) : IsTestCaseHeader(Strip(lines[i]))})
          /\ Len(ret) = Len(test_cases)

C2_Witness ==
    /\ ParseFinished
    /\ Len(lines) = 2
    /\ IsTestCaseHeader(Strip(lines[1]))
    /\ IsTestCaseHeader(Strip(lines[2]))
    /\ Len(ret) = 2

\* C6: on a fresh generator an empty or whitespace-only reply raises nothing,
\* returns the empty list, leaves test_cases empty, and generate_test_cases
\* reports the no-test-cases warning.
C6_BlankReply ==
    (tcg_pc # "constructed" /\ Strip(ai_response) = "")
    => /\ tcg_pc # "raised"
       /\ error = None
       /\ ret = <<>>
       /\ test_cases = <<>>
       /\ tcg_pc \in {"generated", "saved"} =>
             console[Len(console) - (IF tcg_pc = "saved" THEN 1 ELSE 0)]
                = "Warning: No test cases were extracted from the AI response."

C6_Witness ==
    /\ tcg_pc = "generated"
    /\ ai_response = " \t"
    /\ test_cases = <<>>

\* C7: right after a header line is read, the open record has the trimmed text
\* before the first colon as ID, the trimmed text after it as scenario, no
\* steps and an empty expected result; and the example reply of the
\* specification yields its one record.
C7_HeaderFields ==
    /\ (tcg_pc = "loop" /\ idx > 1 /\ HeaderForm(Strip(lines[idx - 1]))) =>
          current_test_case =
             TestCase(TextBeforeColon(Strip(lines[idx - 1])),
                      TextAfterColon(Strip(lines[idx - 1])), <<>>, "")
    /\ (ParseFinished /\ ai_response = ExampleReply) =>
          test_cases = <<TestCase("Test Case 1", "Login",
                                  <<"Open page", "Enter credentials">>,
                                  "User is logged in")>>

C7_Witness ==
    /\ tcg_pc = "loop"
    /\ idx > 1
    /\ lines[idx - 1] = "  TC-2 : Pay: by card "
    /\ current_test_case["Test Case ID"] = "TC-2"
    /\ current_test_case["Test Scenario"] = "Pay: by card"

\* The lines of a saved text
TextLines(text) == IF text = "" THEN <<>> ELSE Split(text, "\n")

\* C8: the row saved for a record with N steps holds N lines, line i being
\* "i. " and the text of step i, whatever numbers the reply gave the steps.
C8_SavedNumbering ==
    (tcg_pc = "saved" /\ save_ret)
    => LET rows == files[TestCasesPath]
       IN  /\ Len(rows) = Len(test_cases)
           /\ \A k \in 1..Len(rows) :
                LET steps == test_cases[k]["Steps to Execute"]
                    tl    == TextLines(rows[k]["Steps to Execute"])
                IN  /\ Len(tl) = Len(steps)
                    /\ \A i \in 1..Len(tl) : tl[i] = Str(i) \o ". " \o steps[i]

C8_Witness ==
    /\ tcg_pc = "saved"
    /\ save_ret
    /\ Len(test_cases) = 1
    /\ test_cases[1]["Steps to Execute"] = <<"Enter credentials", "Open page">>

(***************************************************************************)
(* Properties of the script-body extractor (SpecExtract)                   *)
(***************************************************************************)

\* The first reply has been read and its code extracted
Extracted == tsg_pc \in {"loop", "generated", "saved", "raised"} /\ test_scripts # <<>>

ExtractedCode == test_scripts[1]["Python Selenium Code"]

\* The lines of the reply as pasted
RawLines(r) == Split(r, "\n")

\* No line of the reply is a fence marker
NoFenceMarkers(ls) ==
    \A i \in 1..Len(ls) : ~IsFenceOpen(ls[i]) /\ ~IsFenceClose(ls[i])

First(S) == CHOOSE x \in S : \A y \in S : x <= y

\* C3, as the specification states it: when the reply holds one opening marker
\* line, one closing marker line after it and no other marker line, the code is
\* exactly the lines strictly between the two, an empty block included.
C3_FencedBlock ==
    Extracted =>
       LET ls == RawLines(tsg_ai_response)
       IN  \A a, b \in 1..Len(ls) :
              ( /\ a < b
                /\ IsFenceOpen(ls[a])
                /\ IsFenceClose(ls[b])
                /\ \A j \in 1..Len(ls) \ {a, b} :
                      ~IsFenceOpen(ls[j]) /\ ~IsFenceClose(ls[j]) )
              => ExtractedCode = Join(SubSeq(ls, a + 1, b - 1), "\n")

\* C3 holds of every block that is not empty
C3_NonEmptyBlock ==
    Extracted =>
       LET ls == RawLines(tsg_ai_response)
       IN  \A a, b \in 1..Len(ls) :
              ( /\ a + 1 < b
                /\ IsFenceOpen(ls[a])
                /\ IsFenceClose(ls[b])
                /\ \A j \in 1..Len(ls) \ {a, b} :
                      ~IsFenceOpen(ls[j]) /\ ~IsFenceClose(ls[j]) )
              => ExtractedCode = Join(SubSeq(ls, a + 1, b - 1), "\n")

C5_WholeReplyUnchanged ==
    Extracted =>
       LET ls == RawLines(tsg_ai_response)
       IN  (NoFenceMarkers(ls) /\ \A i \in 1..Len(ls) : ~IsImportLine(ls[i]))
           => ExtractedCode = tsg_ai_response

\* C5, amended: the code is the reply with its leading and trailing whitespace
\* removed, and otherwise character for character the reply.
C5_WholeReplyStripped ==
    Extracted =>
       LET ls == RawLines(tsg_ai_response)
       IN  (NoFenceMarkers(ls) /\ \A i \in 1..Len(ls) : ~IsImportLine(ls[i]))
           => \E a, b \in 0..Len(tsg_ai_response) :
                 /\ tsg_ai_response = SubSeq(tsg_ai_response, 1, a) \o ExtractedCode
                                         \o SubSeq(tsg_ai_response,
                                                   Len(tsg_ai_response) - b + 1,
                                                   Len(tsg_ai_response))
                 /\ \A i \in (1..a) \cup
                        ((Len(tsg_ai_response) - b + 1)..Len(tsg_ai_response)) :
                       Char(tsg_ai_response, i) \in WhiteSpace
                 /\ ExtractedCode # "" =>
                       /\ Head(ExtractedCode) \notin WhiteSpace
                       /\ Char(ExtractedCode, Len(ExtractedCode)) \notin WhiteSpace

C5_Witness ==
    /\ Extracted
    /\ tsg_ai_response = "\nSure:\nx = 1\n"
    /\ ExtractedCode = "Sure:\nx = 1"

(***************************************************************************)
(* Properties of a run of main (Spec)                                      *)
(***************************************************************************)

\* Task 2 has run to its end and found no test case
ZeroTestCases == tcg_pc = "saved" /\ test_cases = <<>>

\* C9, as the specification states it: in a run of every task, a reply that
\* yields no test case is only a warning; main does not end in a fatal error
\* for want of the test cases (that is, before a TestScriptGenerator exists),
\* and a run that completes has produced no script.
C9_ZeroCasesNotFatal ==
    (task = "all" /\ ZeroTestCases)
    => /\ ~(main_pc = "failed" /\ tsg_pc = None)
       /\ main_pc = "done" => test_scripts = <<>>

\* The built-in text of the template a stage asks for
BuiltInText(name) ==
    IF Contains(name, "test_case_prompt_template.txt")
    THEN DefaultTestCasePrompt
    ELSE DefaultTestScriptPrompt

\* C10, as the specification states it: a template load that finds its file
\* absent regenerates the defaults once, and the retried read returns the
\* built-in text.
C10_TemplateSelfHeals ==
    \A i \in 1..Len(loads) :
        loads[i].absent =>
            /\ loads[i].regenerated = 1
            /\ loads[i].raised = None
            /\ loads[i].text = BuiltInText(loads[i].name)

\* The URL is written scheme "://" location, the location not empty: the text
\* before the first ":" is a scheme name, "//" follows it, and what follows
\* that does not begin with "/", "?" or "#"
HasSchemeAndHost(u) ==
    \E i \in 2..(Len(u) - 3) :
        /\ \A k \in 1..(i - 1) : Char(u, k) \in SchemeChars
        /\ ~IsDigit(Char(u, 1))
        /\ SubSeq(u, i, i + 2) = "://"
        /\ Char(u, i + 3) \notin {"/", "?", "#"}

\* Task 1 is about to run on a URL that is missing, empty or without a scheme
\* or a host
BadUrlCase ==
    /\ main_pc = "task1"
    /\ task \in {"extract", "all"}
    /\ (url = None \/ url = "" \/ ~HasSchemeAndHost(url))

Count(seq, x) == Cardinality({i \in 1..Len(seq) : seq[i] = x})

\* In a run of every task the stages start in order, each at most once, a later
\* stage only after the stage before it has ended
StagesInOrder ==
    /\ tcg_pc # None => (ee_pc = "returned" /\ ElementsJsonPath \in written)
    /\ tsg_pc # None => tcg_pc = "saved"
    /\ Count(console, "Task 1: Extracting elements") <= 1
    /\ Count(console, "Task 2: Generating test cases using AI") <= 1
    /\ Count(console, "Task 3: Generating Selenium scripts using AI") <= 1

\* C12, as the specification states it: in a run of every task the stages run
\* in order, each at most once, and a stage reads only the file the stage
\* before it wrote in this run.
C12_StagesConsumeOwnFiles ==
    task = "all" =>
        /\ StagesInOrder
        /\ tsg_pc # None => TestCasesPath \in written

\* The order of the stages, and the elements.json of stage 2, are as C12 says
C12_StageOrder == task = "all" => StagesInOrder

(***************************************************************************)
(* Properties of get_user_input (SpecInputLive)                            *)
(***************************************************************************)

\* Where the operator has typed a blank line right after a blank line
SentinelPositions ==
    {i \in 2..Len(typed) : Strip(typed[i]) = "" /\ Strip(typed[i - 1]) = ""}

\* What holds of a call that has returned
ReturnedReply ==
    gui_pc = "returned" =>
        /\ gui_ret = Join(gui_lines, "\n")
        /\ IF SentinelPositions # {}
           THEN /\ nread = First(SentinelPositions)
                /\ gui_lines = SubSeq(typed, 1, First(SentinelPositions) - 1)
           ELSE /\ eof
                /\ gui_lines = typed
        /\ LET ls == Split(gui_ret, "\n")
           IN  \A i \in 1..(Len(ls) - 1) : ~(Strip(ls[i]) = "" /\ Strip(ls[i + 1]) = "")

\* C13: get_user_input stops at the first blank line that follows a blank
\* line, or at end of input, and returns the lines before it joined by
\* newlines: the reply never holds two blank lines in a row nor any line typed
\* after the sentinel; and once the sentinel or the end of input is supplied,
\* the call returns.
C13_ReadsToSentinel ==
    /\ []ReturnedReply
    /\ (gui_pc # None /\ (eof \/ SentinelPositions # {})) ~> (gui_pc = "returned")

C13_Witness ==
    /\ gui_pc = "returned"
    /\ typed = <<"a", "", "  ", " b">>
    /\ gui_ret = "a\n"

(***************************************************************************)
(* Properties of extract_elements within a run of main (Spec)              *)
(***************************************************************************)

\* extract_elements has returned or raised
ExtractEnded == ee_pc \in {"returned", "raised"}

\* C14: there is at most one browser session at any time; a session that was
\* created is quit exactly once before extract_elements returns or raises,
\* whichever step of the try block failed; none is open once the call or the
\* run has ended.
C14_SessionQuitOnce ==
    /\ Cardinality(sessions) <= 1
    /\ quits <= opened
    /\ ExtractEnded => (sessions = {} /\ quits = opened)
    /\ main_pc \in {"done", "failed"} => sessions = {}

C14_Witness ==
    /\ ee_pc = "raised"
    /\ error = "TimeoutException"
    /\ opened = 1
    /\ quits = 1
    /\ sessions = {}

(***************************************************************************)
(* Properties of generate_scripts (SpecScripts)                            *)
(***************************************************************************)

\* The reports of prompts shown and replies asked for, in console order
PromptsAndReplies ==
    SelectSeq(console, LAMBDA e : StartsWith(e, "PROMPT ") \/ StartsWith(e, "REPLY "))

\* PROMPT 1, REPLY 1, PROMPT 2, REPLY 2, ... for n rows
Alternating(n) ==
    [j \in 1..(2 * n) |->
        IF j % 2 = 1 THEN "PROMPT " \o Str((j + 1) \div 2)
                     ELSE "REPLY " \o Str(j \div 2)]

\* C15: generate_scripts on a fresh generator with K rows leaves K script
\* records, the i-th with the ID and scenario of row i and the code extracted
\* from the i-th reply collected; one reply is collected per row, prompt i
\* before reply i and reply i before prompt i+1.
C15_OneScriptPerRow ==
    /\ tsg_pc = "loop" =>
          /\ Len(test_scripts) = row - 1
          /\ Len(pasted) = row - 1
          /\ PromptsAndReplies = Alternating(row - 1)
    /\ tsg_pc \in {"generated", "saved"} =>
          /\ Len(test_scripts) = Len(tsg_test_cases)
          /\ Len(pasted) = Len(tsg_test_cases)
          /\ PromptsAndReplies = Alternating(Len(tsg_test_cases))
          /\ \A i \in 1..Len(test_scripts) :
                test_scripts[i] =
                    TestScript(tsg_test_cases[i]["Test Case ID"],
                               tsg_test_cases[i]["Test Scenario"],
                               ExtractCodeFromResponse(pasted[i]))

C15_Witness ==
    /\ tsg_pc = "generated"
    /\ Len(tsg_test_cases) = 3
    /\ pasted = <<"x = 1", "", "x = 1">>
    /\ test_scripts[3]["Test Case ID"] = "TC-3"
    /\ test_scripts[3]["Python Selenium Code"] = "x = 1"

(***************************************************************************)
(* Properties of _format_elements_for_prompt (SpecFormat)                  *)
(***************************************************************************)

\* The select and the navigation menu of the record that was formatted
TheOptions == elements["inputs"][2]["options"]

TheItems == elements["metadata"]["page_structure"]["navigation"][1]["items"]

\* The lines of the digest
DigestLines == Split(elements_summary, "\n")

\* The first five entries, or all when there are no more than five
ShownTexts(entries) ==
    [i \in 1..(IF Len(entries) > 5 THEN 5 ELSE Len(entries)) |-> entries[i]["text"]]

\* "k more" with the noun in the number of k
MoreWording(k, noun) ==
    Str(k) \o " more " \o noun \o (IF k = 1 THEN "" ELSE "s")

\* The lines of the digest that list navigation items, and what follows them
NavLinesFrom(ls) ==
    LET at == CHOOSE i \in 1..Len(ls) : StartsWith(ls[i], "  - Navigation (")
    IN  SubSeq(ls, at + 1, Len(ls))

\* The digest shows the first five options and items in order, all of them when
\* there are no more than five, and a suffix only when there are more
ShowsFirstFive(suffix_of_items) ==
    LET k == Len(TheOptions)
        n == Len(TheItems)
    IN  /\ \E i \in 1..Len(DigestLines) :
              DigestLines[i] =
                  "  2. select dropdown (name=size, options: "
                     \o Join(ShownTexts(TheOptions), ", ")
                     \o (IF k > 5 THEN ", ... (" \o Str(k - 5) \o " more)" ELSE "")
                     \o ")"
        /\ NavLinesFrom(DigestLines) =
              [i \in 1..Len(ShownTexts(TheItems)) |->
                  "    " \o Str(i) \o ". " \o TheItems[i]["text"]
                     \o " (href=" \o TheItems[i]["href"] \o ")"]
              \o (IF n > 5 THEN <<suffix_of_items>> ELSE <<>>)

\* C16, as the specification states it: of more than five options or items the
\* digest shows the first five and a "more" suffix that counts the rest and is
\* correctly pluralized for one and for several; of five or fewer it shows all
\* and no suffix.
C16_TruncatedWithPluralSuffix ==
    tcg_pc = "formatted" =>
        ShowsFirstFive("    ... (" \o MoreWording(Len(TheItems) - 5, "item") \o ")")

\* What holds instead: the suffix of a navigation menu always reads "more items"
C16_TruncatedWithItemsSuffix ==
    tcg_pc = "formatted" =>
        ShowsFirstFive("    ... (" \o Str(Len(TheItems) - 5) \o " more items)")

(***************************************************************************)
(* Properties of the two save methods within a run of main (Spec)          *)
(***************************************************************************)

\* C17: an exception raised while save_test_cases builds and writes the
\* spreadsheet does not leave the call: the call reports the error and returns
\* False, and it returns True only when the file was written; a write failure
\* in save_scripts leaves save_scripts.
C17_SaveGuarded ==
    [][ /\ (tcg_pc = "generated" /\ tcg_pc' # tcg_pc) =>
              /\ tcg_pc' = "saved"
              /\ error' = error
              /\ main_pc' = main_pc
              /\ save_ret' = (TestCasesPath \in written')
              /\ save_ret' => files'[TestCasesPath] = ProcessedTestCases(test_cases)
              /\ ~save_ret' =>
                    /\ files' = files
                    /\ Len(console') = Len(console) + 1
                    /\ StartsWith(console'[Len(console')], "Error")
        /\ (tsg_pc = "generated" /\ tsg_pc' # tsg_pc) =>
              IF TestScriptsPath \in written'
              THEN tsg_pc' = "saved" /\ error' = error
              ELSE tsg_pc' = "raised" /\ error' = "OSError" /\ main_pc' = "failed"
      ]_vars

C17_Witness ==
    /\ main_pc = "in_task2"
    /\ tcg_pc = "saved"
    /\ test_cases # <<>>
    /\ save_ret = FALSE
    /\ error = None
    /\ console[Len(console)] = "Error saving test cases to Excel"

(***************************************************************************)
(* Properties of the section contents (SpecParse)                          *)
(***************************************************************************)

\* The stripped line the loop has just processed
LastLine == Strip(lines[idx - 1])

\* A line that is neither blank, nor a test-case header, nor a section header
IsContent(line) ==
    /\ line # ""
    /\ ~IsTestCaseHeader(line)
    /\ ~IsStepsHeader(line)
    /\ ~IsExpectedHeader(line)

\* The loop has just processed a content line with the given section active in
\* an open record
JustProcessedContent(sec) ==
    /\ tcg_pc = "loop"
    /\ idx > 1
    /\ IsContent(LastLine)
    /\ current_test_case # NoTestCase
    /\ section = sec

\* How many digits the line begins with
LeadingDigits(line) ==
    Cardinality({n \in 1..Len(line) : \A k \in 1..n : IsDigit(Char(line, k))})

\* The line begins with a number immediately followed by ". "
BeginsWithNumberDot(line) ==
    /\ LeadingDigits(line) > 0
    /\ SubSeq(line, LeadingDigits(line) + 1, LeadingDigits(line) + 2) = ". "

\* s ends with t
EndsWith(s, t) == Len(s) >= Len(t) /\ SubSeq(s, Len(s) - Len(t) + 1, Len(s)) = t

\* The steps of the open record
OpenSteps == current_test_case["Steps to Execute"]

\* C18, as the specification states it: in the steps section of an open record
\* a line starts a new step exactly when it begins with a number immediately
\* followed by ". ", the step being the line without that prefix; any other
\* line, one that begins with a digit and holds ". " further on included, is
\* no numbered step and loses no text.
C18_NumberDotPrefix ==
    JustProcessedContent("Steps to Execute") =>
        IF BeginsWithNumberDot(LastLine)
        THEN OpenSteps[Len(OpenSteps)] =
                 Strip(SubSeq(LastLine, LeadingDigits(LastLine) + 3, Len(LastLine)))
        ELSE EndsWith(OpenSteps[Len(OpenSteps)], LastLine)

\* What holds instead: a line is a numbered step when it begins with a digit
\* and holds ". " anywhere, and the step is what follows the first ". "
C18_DigitAndDotSpace ==
    JustProcessedContent("Steps to Execute") =>
        IF IsDigit(Char(LastLine, 1)) /\ Contains(LastLine, ". ")
        THEN OpenSteps[Len(OpenSteps)] =
                 Strip(SubSeq(LastLine, Find(LastLine, ". ") + 2, Len(LastLine)))
        ELSE EndsWith(OpenSteps[Len(OpenSteps)], LastLine)

\* The greatest element of a set of numbers, 0 when there is none
Greatest(S) == IF S = {} THEN 0 ELSE CHOOSE x \in S : \A y \in S : y <= x

\* The last test-case header among the first j lines, 0 when there is none
LastHeaderUpTo(j) ==
    Greatest({i \in 1..j : IsTestCaseHeader(Strip(lines[i]))})

\* The section in force when line j is processed: that of the last section
\* header since the last test-case header
SectionAt(j) ==
    LET sh == Greatest({i \in (LastHeaderUpTo(j - 1) + 1)..(j - 1) :
                           IsStepsHeader(Strip(lines[i]))
                              \/ IsExpectedHeader(Strip(lines[i]))})
    IN  IF sh = 0 THEN None
        ELSE IF IsStepsHeader(Strip(lines[sh])) THEN "Steps to Execute"
        ELSE "Expected Result"

\* The content lines of the open record that fell into its steps section
OpenStepsLines ==
    {j \in (LastHeaderUpTo(idx - 1) + 1)..(idx - 1) :
        IsContent(Strip(lines[j])) /\ SectionAt(j) = "Steps to Execute"}

\* The step count of the open record: its numbered-step lines, and one more
\* when the first content line of its steps section was not numbered
StepCount ==
    (tcg_pc = "loop" /\ current_test_case # NoTestCase) =>
        Len(OpenSteps) =
            Cardinality({j \in OpenStepsLines : IsNumberedStep(Strip(lines[j]))})
              + (IF OpenStepsLines # {}
                    /\ ~IsNumberedStep(Strip(lines[First(OpenStepsLines)]))
                 THEN 1 ELSE 0)

\* The loop is about to process a content line with the given section active in
\* an open record
AboutToProcessContent(sec) ==
    /\ tcg_pc = "loop"
    /\ idx <= Len(lines)
    /\ IsContent(Strip(lines[idx]))
    /\ current_test_case # NoTestCase
    /\ section = sec

\* C19: in the steps section of an open record a line not recognized as a
\* numbered step becomes step 1 when there is no step yet and is otherwise
\* joined by one space onto the last step, the number of steps unchanged, so
\* that the step count is the number of numbered-step lines plus one when the
\* first content line of the section was unnumbered; in the expected section
\* every content line is appended, by one space, to the expected result.
C19_Continuation ==
    /\ []StepCount
    /\ [][ /\ ( /\ AboutToProcessContent("Steps to Execute")
                /\ ~IsNumberedStep(Strip(lines[idx])) ) =>
                 current_test_case' =
                     [current_test_case EXCEPT !["Steps to Execute"] =
                         IF @ = <<>> THEN <<Strip(lines[idx])>>
                         ELSE [@ EXCEPT ![Len(@)] = @ \o " " \o Strip(lines[idx])]]
           /\ AboutToProcessContent("Expected Result") =>
                 current_test_case' =
                     [current_test_case EXCEPT !["Expected Result"] =
                         IF @ = "" THEN Strip(lines[idx])
                         ELSE @ \o " " \o Strip(lines[idx])]
         ]_vars

C19_Witness ==
    /\ tcg_pc = "processed"
    /\ ai_response = TwoCaseReply
    /\ ret[1]["Steps to Execute"] = <<"Enter credentials", "Open page then wait">>
    /\ ret[1]["Expected Result"] = "User is logged in"

\* The line the loop is about to process
ThisLine == Strip(lines[idx])

\* C20: a content line met while no record is open, or after a test-case header
\* and before the record's first section header, changes neither the open
\* record nor the emitted ones; a test-case header emits the open record as it
\* is, opens a record without steps or expected result and leaves no section
\* active; a section-header line changes no record.
C20_StrayContentDiscarded ==
    [][ (tcg_pc = "loop" /\ idx <= Len(lines)) =>
          /\ ( /\ IsContent(ThisLine)
               /\ (LastHeaderUpTo(idx - 1) = 0 \/ SectionAt(idx) = None) ) =>
                 /\ test_cases' = test_cases
                 /\ current_test_case' = current_test_case
          /\ IsTestCaseHeader(ThisLine) =>
                 /\ section' = None
                 /\ test_cases' = IF current_test_case = NoTestCase THEN test_cases
                                  ELSE Append(test_cases, current_test_case)
                 /\ current_test_case'["Steps to Execute"] = <<>>
                 /\ current_test_case'["Expected Result"] = ""
          /\ (IsStepsHeader(ThisLine) \/ IsExpectedHeader(ThisLine)) =>
                 /\ test_cases' = test_cases
                 /\ current_test_case' = current_test_case
      ]_vars

\* The stray line after the second header has been passed over, the first
\* record having ended inside its steps section
C20_Witness ==
    /\ tcg_pc = "loop"
    /\ ai_response = StrayLinesReply
    /\ idx = 8
    /\ LastLine = "stray note"
    /\ test_cases = <<[NewTestCase("Test Case 1: Login")
                         EXCEPT !["Steps to Execute"] = <<"Open page">>]>>
    /\ current_test_case = NewTestCase("TC-2: Pay")

(***************************************************************************)
(* Properties of one generator over several calls (SpecCalls)              *)
(***************************************************************************)

\* The records a reply parses to on its own
Parsed(reply) == ProcessAiResponse(<<>>, reply)

\* The records of a sequence of replies, reply after reply
RECURSIVE ParsedAll(_)
ParsedAll(replies) ==
    IF replies = <<>> THEN <<>>
    ELSE Parsed(Head(replies)) \o ParsedAll(Tail(replies))

\* The replies of the calls before the one under way or last finished
EarlierReplies == SubSeq(pasted, 1, Len(pasted) - 1)

IsPrefix(s, t) == Len(s) <= Len(t) /\ SubSeq(t, 1, Len(s)) = s

\* A call of _process_ai_response has returned
CallReturned == tcg_pc \in {"processed", "generated", "saved"} /\ pasted # <<>>

\* The list after each call is the list before it followed by the records of
\* the call's reply; a blank reply adds nothing and returns an empty sequence
AppendedPerCall ==
    /\ tcg_pc = "loop" => IsPrefix(ParsedAll(EarlierReplies), test_cases)
    /\ CallReturned =>
          /\ test_cases = ParsedAll(EarlierReplies) \o Parsed(ai_response)
          /\ ai_response = pasted[Len(pasted)]
          /\ IF Strip(ai_response) = ""
             THEN ret = <<>> /\ test_cases = ParsedAll(EarlierReplies)
             ELSE ret = test_cases

\* C21: over any sequence of calls on one generator the list after a call is
\* the list before it followed by the records parsed from the call's reply, in
\* order; no step clears or reorders it; a call with an empty or
\* whitespace-only reply leaves it unchanged and returns an empty sequence.
C21_AppendOnly ==
    /\ []AppendedPerCall
    /\ [][IsPrefix(test_cases, test_cases')]_vars

\* A second call has returned, both replies carrying records
C21_Witness ==
    /\ tcg_pc = "processed"
    /\ pasted = <<ExampleReply, StrayLinesReply>>
    /\ ret = test_cases
    /\ Len(Parsed(ExampleReply)) = 1
    /\ Len(Parsed(StrayLinesReply)) = 2
    /\ Len(test_cases) = 3
    /\ test_cases[1]["Test Case ID"] = "Test Case 1"
    /\ test_cases[3]["Test Case ID"] = "TC-2"

\* A call with a blank reply has returned an empty sequence, the list holding
\* the records of an earlier call
C21_BlankCallWitness ==
    /\ tcg_pc = "processed"
    /\ pasted = <<ExampleReply, "">>
    /\ ret = <<>>
    /\ test_cases = Parsed(ExampleReply)
    /\ test_cases # <<>>

\* A call of save_test_cases is under way in this step
SaveStep == tcg_pc \in {"generated", "saved"} /\ tcg_pc' \in {"saved", "raised"}

\* The steps of every record are the step strings the parser collected
StepsAsParsed ==
    (tcg_pc \in {"generated", "saved"}) => test_cases = ParsedAll(pasted)

\* C22: save_test_cases leaves the records in memory as they were, whether it
\* writes, fails or returns early: the same IDs, scenarios and expected
\* results, the steps the same list of step strings without numbers; the
\* numbered text is in the rows written only, and a second successful call
\* writes the rows the first one wrote.
C22_SaveLeavesRecords ==
    /\ []StepsAsParsed
    /\ [][ SaveStep =>
             /\ test_cases' = test_cases
             /\ save_ret' =>
                  /\ files'[TestCasesPath] = ProcessedTestCases(test_cases)
                  /\ \A i \in 1..Len(test_cases) :
                        /\ files'[TestCasesPath][i]["Test Case ID"] =
                               test_cases[i]["Test Case ID"]
                        /\ files'[TestCasesPath][i]["Steps to Execute"] =
                               StepsText(test_cases'[i]["Steps to Execute"])
             /\ (tcg_pc = "saved" /\ save_ret /\ save_ret') =>
                  files'[TestCasesPath] = files[TestCasesPath]
         ]_vars

\* save_test_cases has written the same records twice
C22_Witness ==
    /\ tcg_pc = "saved"
    /\ save_ret
    /\ SaveCalls = 2
    /\ Len(console) >= 2
    /\ console[Len(console)] = "Test cases successfully saved"
    /\ console[Len(console) - 1] = "Test cases successfully saved"
    /\ test_cases = Parsed(ExampleReply)
    /\ test_cases[1]["Steps to Execute"] = <<"Open page", "Enter credentials">>
    /\ files[TestCasesPath][1]["Steps to Execute"] =
           "1. Open page\n2. Enter credentials"

=============================================================================
